---- MODULE Spec2Model ----
(***************************************************************************)
(* A model of the certwiz certificate engine (pkg/cert): the SAN           *)
(* classifier, the PEM/DER format detector, InspectFile, Verify, Convert,  *)
(* ParseCSR, SignCSR, the generators, the remote inspector and the TLS     *)
(* version prober, over an abstract file system and network, with the      *)
(* verify, inspect, generate, ca and csr commands (cmd) on top of them.    *)
(*                                                                         *)
(* Text that the code inspects byte by byte (SAN entries, host names) is a  *)
(* sequence of bytes: a one-character string for an ASCII byte, its two    *)
(* hex digits for a byte of a multi-byte UTF-8 encoding. Names that are    *)
(* only copied and compared (subjects, paths, key identities) are strings. *)
(***************************************************************************)
EXTENDS Integers, Sequences, FiniteSets, TLC

VARIABLES fs, now, call, ret, log

vars == <<fs, now, call, ret, log>>

\* ------------------------------------------------------------------ bounds

\* Longest SAN list handed to splitSANs.
MaxSANs == 3

\* --------------------------------------------------------------- strings

\* All sequences over S of length at most n.
BoundedSeq(S, n) == UNION {[1..k -> S] : k \in 0..n}

\* unicode.ToLower on an ASCII byte, for the letters of the model's alphabet.
ToLowerChar(c) ==
    CASE c = "A" -> "a" [] c = "E" -> "e" [] c = "H" -> "h" [] c = "I" -> "i"
      [] c = "L" -> "l" [] c = "M" -> "m" [] c = "P" -> "p" [] c = "R" -> "r"
      [] c = "U" -> "u" [] c = "C" -> "c" [] c = "D" -> "d" [] c = "S" -> "s"
      [] c = "T" -> "t" [] OTHER -> c

\* The bytes of the model that are not ASCII, and the UTF-8 encodings of
\* U+0130 (capital I with dot above) and of U+FFFD (utf8.RuneError).
NonASCII == {"C4", "B0", "EF", "BF", "BD"}
CapitalDottedI == <<"C4", "B0">>
RuneError == <<"EF", "BF", "BD">>

RECURSIVE ToLower(_)
\* strings.ToLower: rune by rune (strings.Map over unicode.ToLower). The
\* simple lower-case mapping of U+0130 is the ASCII "i", so the result can be
\* shorter in bytes than the argument; a byte that starts no rune of the
\* model decodes to utf8.RuneError.
ToLower(s) ==
    IF s = <<>> THEN <<>>
    ELSE IF s[1] \notin NonASCII THEN <<ToLowerChar(s[1])>> \o ToLower(Tail(s))
    ELSE IF Len(s) >= 2 /\ SubSeq(s, 1, 2) = CapitalDottedI
    THEN <<"i">> \o ToLower(SubSeq(s, 3, Len(s)))
    ELSE IF Len(s) >= 3 /\ SubSeq(s, 1, 3) = RuneError
    THEN RuneError \o ToLower(SubSeq(s, 4, Len(s)))
    ELSE RuneError \o ToLower(Tail(s))

\* strings.HasPrefix
HasPrefix(s, p) == Len(s) >= Len(p) /\ SubSeq(s, 1, Len(p)) = p

\* Go's s[n:], a slice of bytes
SliceFrom(s, n) == SubSeq(s, n + 1, Len(s))

\* strings.TrimPrefix
TrimPrefix(s, p) == IF HasPrefix(s, p) THEN SliceFrom(s, Len(p)) ELSE s

\* The index of the first c in s, 0 when there is none (strings.IndexByte + 1).
IndexOf(s, c) ==
    IF \E i \in 1..Len(s) : s[i] = c
    THEN CHOOSE i \in 1..Len(s) : s[i] = c /\ \A j \in 1..(i - 1) : s[j] # c
    ELSE 0

Letters == {"a", "b", "c", "d", "e", "h", "i", "l", "m", "o", "p", "r", "s", "t",
            "u", "x", "z", "A", "C", "D", "E", "H", "I", "L", "M", "P", "R", "S",
            "T", "U"}

\* The characters getScheme of net/url accepts at (1-based) position i of a scheme.
SchemeChar(c, i) == c \in Letters \/ (i > 1 /\ c \in {"0", "1", "+", "-", "."})

\* The tags of san.go, as the code spells them.
TagIP == <<"I", "P", ":">>
TagEmail == <<"e", "m", "a", "i", "l", ":">>
TagURI == <<"u", "r", "i", ":">>

\* ---------------------------------------------------- library parsers

\* The nil of a failed parse.
Nil == [ok |-> FALSE]

\* net.ParseIP: the textual forms of the model and the address each denotes
\* (the 16-byte form's last four bytes for IPv4, the loopback for "::1").
ParseIP(s) ==
    CASE s = <<"1", "0", ".", "0", ".", "0", ".", "1">> -> [ok |-> TRUE, ip |-> <<10, 0, 0, 1>>]
      [] s = <<":", ":", "1">> -> [ok |-> TRUE, ip |-> <<0, 0, 0, 0, 0, 0, 0, 1>>]
      [] OTHER -> Nil

\* url.Parse: getScheme, then the rest. A leading colon is "missing protocol
\* scheme"; with no scheme, a colon in the first path segment is an error; the
\* scheme is lower-cased.
ParseURL(s) ==
    LET colon == IndexOf(s, ":")
        slash == IndexOf(s, "/")
        schemeOK == colon > 1 /\ \A j \in 1..(colon - 1) : SchemeChar(s[j], j)
    IN  IF colon = 1 THEN Nil
        ELSE IF schemeOK
        THEN [ok |-> TRUE, scheme |-> ToLower(SubSeq(s, 1, colon - 1)), rest |-> SliceFrom(s, colon)]
        ELSE IF colon > 0 /\ (slash = 0 \/ colon < slash) /\ slash # 1 THEN Nil
        ELSE [ok |-> TRUE, scheme |-> <<>>, rest |-> s]

\* ------------------------------------------------------- SAN classifier

EmptySplit == [dns |-> <<>>, ips |-> <<>>, emails |-> <<>>, uris |-> <<>>]

\* A variant that falls back to the DNS list when a typed value does not parse.
SplitStepFallbackDNS(acc, san) ==
    IF HasPrefix(san, TagIP)
    THEN LET ip == ParseIP(TrimPrefix(san, TagIP))
         IN  IF ip.ok THEN [acc EXCEPT !.ips = Append(@, ip.ip)]
             ELSE [acc EXCEPT !.dns = Append(@, san)]
    ELSE IF HasPrefix(ToLower(san), TagEmail)
    THEN [acc EXCEPT !.emails = Append(@, SliceFrom(san, Len(TagEmail)))]
    ELSE IF HasPrefix(ToLower(san), TagURI)
    THEN LET u == ParseURL(SliceFrom(san, Len(TagURI)))
         IN  IF u.ok THEN [acc EXCEPT !.uris = Append(@, [scheme |-> u.scheme, rest |-> u.rest])]
             ELSE [acc EXCEPT !.dns = Append(@, san)]
    ELSE [acc EXCEPT !.dns = Append(@, san)]

\* One iteration of the loop of splitSANs: the switch on one entry.
SplitStep(acc, san) ==
    IF HasPrefix(san, TagIP)
    THEN LET ip == ParseIP(TrimPrefix(san, TagIP))
         IN  IF ip.ok THEN [acc EXCEPT !.ips = Append(@, ip.ip)] ELSE acc
    ELSE IF HasPrefix(ToLower(san), TagEmail)
    THEN [acc EXCEPT !.emails = Append(@, SliceFrom(san, Len(TagEmail)))]
    ELSE IF HasPrefix(ToLower(san), TagURI)
    THEN LET u == ParseURL(SliceFrom(san, Len(TagURI)))
         IN  IF u.ok THEN [acc EXCEPT !.uris = Append(@, [scheme |-> u.scheme, rest |-> u.rest])]
             ELSE acc
    ELSE [acc EXCEPT !.dns = Append(@, san)]

RECURSIVE SplitLoop(_, _)
\* The loop of splitSANs over the entries, in input order.
SplitLoop(acc, sans) ==
    IF sans = <<>> THEN acc ELSE SplitLoop(SplitStep(acc, Head(sans)), Tail(sans))

\* splitSANs
splitSANs(sans) == SplitLoop(EmptySplit, sans)

\* The SAN strings of the model: bare and wildcard DNS names, well-formed and
\* malformed typed entries, the tags in the other letter case, and the tags
\* spelled with U+0130 for their "i".
SanDNS == <<"a", ".", "c", "o">>
SanWildcard == <<"*", ".", "a", ".", "c", "o">>
SanIP == TagIP \o <<"1", "0", ".", "0", ".", "0", ".", "1">>
SanIP6 == TagIP \o <<":", ":", "1">>
SanIPBad == TagIP \o <<"x">>
SanIPLower == <<"i", "p", ":">> \o <<"1", "0", ".", "0", ".", "0", ".", "1">>
SanEmail == TagEmail \o <<"a", "@", "b">>
SanEmailUpper == <<"E", "M", "A", "I", "L", ":">> \o <<"a", "@", "b">>
SanEmailBad == TagEmail \o <<"z", "z">>
SanURI == TagURI \o <<"h", ":", "/", "/", "x">>
SanURIUpper == <<"U", "R", "I", ":">> \o <<"H", ":", "/", "/", "x">>
SanURIBad == TagURI \o <<":", "x">>
SanEmailDotted == <<"E", "M", "A">> \o CapitalDottedI \o <<"L", ":">> \o <<"a", "@", "b">>
SanURIDotted == <<"U", "R">> \o CapitalDottedI \o <<":">> \o <<"h", ":", "/", "/", "x">>

SANEntries == {SanDNS, SanWildcard, SanIP, SanIP6, SanIPBad, SanIPLower, SanEmail,
               SanEmailUpper, SanEmailBad, SanURI, SanURIUpper, SanURIBad,
               SanEmailDotted, SanURIDotted}

\* ------------------------------------------------------------ file system

Paths == {"req.csr", "ca.crt", "ca.key", "leaf.crt"}

\* A path with no file.
NoFile == [exists |-> FALSE]

\* A file holding data: a sequence of chunks (a PEM BEGIN line, a PEM body,
\* a PEM END line, binary DER, or other text).
File(data) == [exists |-> TRUE, data |-> data]

EmptyFS == [p \in Paths |-> NoFile]

NoCall == [op |-> "none"]

\* os.ReadFile
ReadFile(f, path) ==
    IF f[path].exists THEN [ok |-> TRUE, data |-> f[path].data] ELSE Nil

\* --------------------------------------------------------- PEM and DER

FormatPEM == "PEM"
FormatDER == "DER"

\* Bytes that are no DER object the tool knows.
Junk == [kind |-> "junk"]

Begin(t) == [c |-> "begin", type |-> t]
Body(b) == [c |-> "body", bytes |-> b]
End(t) == [c |-> "end", type |-> t]
Der(b) == [c |-> "der", bytes |-> b]
Text == [c |-> "text"]

\* What pem.Encode writes for one block, in the order of its writes.
PemEncode(t, b) == <<Begin(t), Body(b), End(t)>>

\* A subject that spells a PEM block. A name is free text, and its bytes
\* stand as they are in the DER encoding of the certificate.
SubjectArmored == "x\n-----BEGIN A-----\nAAAA\n-----END A-----\n"

\* The PEM lines that binary bytes hold in the clear.
ArmorIn(bytes) ==
    IF "subject" \in DOMAIN bytes /\ bytes.subject = SubjectArmored
    THEN PemEncode("A", Junk) ELSE <<>>

RECURSIVE Scan(_)
\* The buffer as pem.Decode reads it: it searches all of it for a BEGIN line,
\* binary bytes included, so binary bytes that hold PEM lines count as them.
Scan(data) ==
    IF data = <<>> THEN <<>>
    ELSE (IF Head(data).c = "der" /\ ArmorIn(Head(data).bytes) # <<>>
          THEN ArmorIn(Head(data).bytes) ELSE <<Head(data)>>) \o Scan(Tail(data))

\* The positions at which a complete PEM block starts.
BlockStarts(data) ==
    {i \in 1..(Len(data) - 2) :
        /\ data[i].c = "begin" /\ data[i + 1].c = "body" /\ data[i + 2].c = "end"
        /\ data[i + 2].type = data[i].type}

\* pem.Decode: the first complete block of the data, nil when there is none.
PemDecode(data) ==
    LET d == Scan(data)
    IN  IF BlockStarts(d) = {} THEN Nil
        ELSE LET i == CHOOSE k \in BlockStarts(d) : \A j \in BlockStarts(d) : k <= j
             IN  [ok |-> TRUE, Type |-> d[i].type, Bytes |-> d[i + 1].bytes]

\* The whole buffer read as one DER object.
RawBytes(data) == IF Len(data) = 1 /\ data[1].c = "der" THEN data[1].bytes ELSE Junk

\* x509.ParseCertificate
X509ParseCertificate(bytes) ==
    IF bytes.kind = "cert" THEN [ok |-> TRUE, cert |-> bytes] ELSE Nil

\* x509.ParseCertificateRequest
X509ParseCertificateRequest(bytes) ==
    IF bytes.kind = "csr" THEN [ok |-> TRUE, csr |-> bytes] ELSE Nil

\* A variant that tries DER on the raw buffer first and PEM after it.
parseCertificateDERFirst(data) ==
    LET raw == X509ParseCertificate(RawBytes(data))
        block == PemDecode(data)
    IN  IF raw.ok
        THEN [cert |-> raw, format |-> FormatDER, err |-> FALSE, parsed |-> <<"raw">>]
        ELSE IF block.ok
        THEN LET c == X509ParseCertificate(block.Bytes)
             IN  [cert |-> c, format |-> FormatPEM, err |-> ~c.ok, parsed |-> <<"raw", "block">>]
        ELSE [cert |-> Nil, format |-> "", err |-> TRUE, parsed |-> <<"raw">>]

\* parseCertificate: the three results (certificate, format, error), and in
\* "parsed" which bytes were handed to x509.ParseCertificate, in order.
parseCertificate(data) ==
    LET block == PemDecode(data)
    IN  IF block.ok
        THEN LET c == X509ParseCertificate(block.Bytes)
             IN  [cert |-> c, format |-> FormatPEM, err |-> ~c.ok, parsed |-> <<"block">>]
        ELSE LET c == X509ParseCertificate(RawBytes(data))
             IN  IF ~c.ok
                 THEN [cert |-> Nil, format |-> "", err |-> TRUE, parsed |-> <<"raw">>]
                 ELSE [cert |-> c, format |-> FormatDER, err |-> FALSE, parsed |-> <<"raw">>]

\* ------------------------------------------------------------ InspectFile

HoursPerDay == 24

\* A variant that rounds the quotient down.
FloorDiv(a, b) == a \div b

\* Go's conversion of a float to int: the quotient rounded toward zero.
TruncDiv(a, b) == IF a >= 0 THEN a \div b ELSE -((-a) \div b)

\* InspectFile at clock t (in hours): the *Certificate and the error.
InspectFile(f, path, t) ==
    LET file == ReadFile(f, path)
    IN  IF ~file.ok THEN [val |-> Nil, err |-> "failed to read file"]
        ELSE LET p == parseCertificate(file.data)
             IN  IF p.err THEN [val |-> Nil, err |-> "failed to parse certificate"]
                 ELSE [val |-> [ok |-> TRUE,
                                Certificate |-> p.cert.cert,
                                Source |-> path,
                                Format |-> p.format,
                                IsExpired |-> p.cert.cert.notAfter < t,
                                DaysUntilExpiry |->
                                    TruncDiv(p.cert.cert.notAfter - t, HoursPerDay)],
                       err |-> ""]

\* ---------------------------------------------------------------- Convert

FormatArgPEM == <<"p", "e", "m">>
FormatArgDER == <<"d", "e", "r">>

\* os.WriteFile(outputPath, output, 0644): the file is opened (created, or
\* cut to nothing) and written; either step may fail.
WriteFile(f, path, data, env) ==
    IF env.fault = "open" THEN [ok |-> FALSE, fs |-> f]
    ELSE IF env.fault = "write" THEN [ok |-> FALSE, fs |-> [f EXCEPT ![path] = File(<<>>)]]
    ELSE [ok |-> TRUE, fs |-> [f EXCEPT ![path] = File(data)]]

\* Convert: the error and the file system it leaves.
Convert(f, inputPath, outputPath, format, env) ==
    LET file == ReadFile(f, inputPath)
    IN  IF ~file.ok THEN [err |-> "failed to read input file", fs |-> f]
        ELSE
        LET p == parseCertificate(file.data)
        IN  IF p.err THEN [err |-> "failed to parse certificate", fs |-> f]
            ELSE
            LET raw == p.cert.cert
                fmt == ToLower(format)
                output == IF fmt = FormatArgPEM THEN PemEncode("CERTIFICATE", raw)
                          ELSE <<Der(raw)>>
                w == WriteFile(f, outputPath, output, env)
            IN  IF fmt \notin {FormatArgPEM, FormatArgDER}
                THEN [err |-> "unsupported format", fs |-> f]
                ELSE IF ~w.ok THEN [err |-> "failed to write output file", fs |-> w.fs]
                ELSE [err |-> "", fs |-> w.fs]

\* ----------------------------------------------------------------- Verify

ErrNotYetValid == "Certificate is not yet valid"
ErrExpired == "Certificate has expired"
ErrHostname == "Hostname verification failed"
ErrChain == "Chain verification failed"

RECURSIVE SplitDots(_)
\* strings.Split(s, ".")
SplitDots(s) ==
    LET d == IndexOf(s, ".")
    IN  IF d = 0 THEN <<s>> ELSE <<SubSeq(s, 1, d - 1)>> \o SplitDots(SliceFrom(s, d))

\* matchHostnames of crypto/x509: label by label, "*" as the pattern's first
\* label matching any one label.
MatchHostnames(pattern, host) ==
    LET pl == SplitDots(ToLower(pattern))
        hl == SplitDots(ToLower(host))
    IN  /\ Len(pl) = Len(hl)
        /\ \A i \in 1..Len(pl) : (i = 1 /\ pl[i] = <<"*">>) \/ pl[i] = hl[i]

\* x509.Certificate.VerifyHostname: TRUE when the host matches a DNS SAN.
VerifyHostname(cert, host) ==
    \E i \in 1..Len(cert.dns) : MatchHostnames(cert.dns[i], host)

\* result.IsValid = false; result.Errors = append(result.Errors, e)
Fail(r, e) == [r EXCEPT !.IsValid = FALSE, !.Errors = Append(@, e)]

\* A variant whose date check clears the flag and reports nothing.
CheckDatesSilent(r, cert, t) ==
    IF cert.notBefore > t \/ cert.notAfter < t THEN [r EXCEPT !.IsValid = FALSE] ELSE r

\* The date check of Verify: if NotBefore.After(now) ... else if NotAfter.Before(now).
CheckDates(r, cert, t) ==
    IF cert.notBefore > t THEN Fail(r, ErrNotYetValid)
    ELSE IF cert.notAfter < t THEN Fail(r, ErrExpired)
    ELSE r

\* A variant that skips the hostname check once a date check has failed.
CheckHostnameIfValid(r, cert, hostname) ==
    IF r.IsValid /\ hostname # <<>> /\ ~VerifyHostname(cert, hostname) THEN Fail(r, ErrHostname) ELSE r

\* A variant that appends the hostname error and leaves IsValid as it was.
CheckHostnameKeepsValid(r, cert, hostname) ==
    IF hostname # <<>> /\ ~VerifyHostname(cert, hostname)
    THEN [r EXCEPT !.Errors = Append(@, ErrHostname)] ELSE r

\* The hostname check of Verify.
CheckHostname(r, cert, hostname) ==
    IF hostname # <<>> /\ ~VerifyHostname(cert, hostname) THEN Fail(r, ErrHostname) ELSE r

\* x509.CertPool.AppendCertsFromPEM: the certificates of the CERTIFICATE
\* blocks that parse; other blocks are skipped.
AppendCertsFromPEM(data) ==
    LET d == Scan(data)
    IN  {d[i + 1].bytes : i \in {k \in BlockStarts(d) :
            d[k].type = "CERTIFICATE" /\ X509ParseCertificate(d[k + 1].bytes).ok}}

\* A variant that hands an empty pool to the chain check when the CA file
\* holds no certificate.
LoadRootsLenient(caData) ==
    LET pemRoots == AppendCertsFromPEM(caData)
        der == X509ParseCertificate(RawBytes(caData))
    IN  IF pemRoots # {} THEN [ok |-> TRUE, roots |-> pemRoots]
        ELSE IF der.ok THEN [ok |-> TRUE, roots |-> {der.cert}]
        ELSE [ok |-> TRUE, roots |-> {}]

\* The root pool of Verify: the PEM bundle, else the single DER certificate.
LoadRoots(caData) ==
    LET pemRoots == AppendCertsFromPEM(caData)
        der == X509ParseCertificate(RawBytes(caData))
    IN  IF pemRoots # {} THEN [ok |-> TRUE, roots |-> pemRoots]
        ELSE IF der.ok THEN [ok |-> TRUE, roots |-> {der.cert}]
        ELSE Nil

\* x509.Certificate.Verify with the roots and, when given, the DNS name: the
\* certificate is within its dates, matches the name, and is a root or is
\* signed by a root CA that is itself within its dates.
CertVerify(cert, roots, hostname, t) ==
    /\ cert.notBefore <= t /\ t <= cert.notAfter
    /\ hostname # <<>> => VerifyHostname(cert, hostname)
    /\ \/ cert \in roots
       \/ \E r \in roots :
            /\ r.subject = cert.issuer /\ r.pub = cert.signedBy /\ r.isCA
            /\ r.notBefore <= t /\ t <= r.notAfter

\* The chain check of Verify.
CheckChain(r, cert, roots, hostname, t) ==
    IF ~CertVerify(cert, roots, hostname, t) THEN Fail(r, ErrChain) ELSE r

\* Verify at clock t: the *VerificationResult and the error.
Verify(f, certPath, caPath, hostname, t) ==
    LET insp == InspectFile(f, certPath, t)
    IN  IF insp.err # "" THEN [result |-> Nil, err |-> insp.err]
        ELSE
        LET cert == insp.val.Certificate
            r0 == [ok |-> TRUE, Certificate |-> insp.val, IsValid |-> TRUE,
                   Errors |-> <<>>, Warnings |-> <<>>]
            r1 == CheckDates(r0, cert, t)
            r2 == CheckHostname(r1, cert, hostname)
        IN  IF caPath = "" THEN [result |-> r2, err |-> ""]
            ELSE
            LET ca == ReadFile(f, caPath)
            IN  IF ~ca.ok THEN [result |-> Nil, err |-> "failed to read CA file"]
                ELSE
                LET pool == LoadRoots(ca.data)
                IN  IF ~pool.ok
                    THEN [result |-> Nil, err |-> "failed to parse CA certificate(s)"]
                    ELSE [result |-> CheckChain(r2, cert, pool.roots, hostname, t),
                          err |-> ""]

\* ------------------------------------------- certificates of the model

NoSANs == [dns |-> <<>>, ips |-> <<>>, emails |-> <<>>, uris |-> <<>>]

Cert(subject, issuer, nb, na, ca, sans, pub, signer) ==
    [kind |-> "cert", subject |-> subject, issuer |-> issuer, notBefore |-> nb,
     notAfter |-> na, isCA |-> ca, dns |-> sans.dns, ips |-> sans.ips,
     emails |-> sans.emails, uris |-> sans.uris, pub |-> pub, signedBy |-> signer]

HostA == <<"a", ".", "c", "o">>
HostSubA == <<"b", ".", "a", ".", "c", "o">>
HostOther == <<"x", ".", "c", "o">>
Hostnames == {HostA, HostSubA, HostOther}

LeafSANs == [dns |-> <<SanDNS, SanWildcard>>, ips |-> << <<10, 0, 0, 1>> >>,
             emails |-> <<>>, uris |-> <<>>]

\* Times are hours on the model's clock, which starts at 0.
CertCA == Cert("Test CA", "Test CA", -240, 2400, TRUE, NoSANs, "kCA", "kCA")
CertOtherCA == Cert("Other CA", "Other CA", -240, 2400, TRUE, NoSANs, "kOther", "kOther")
CertValid == Cert("leaf", "Test CA", -24, 240, FALSE, LeafSANs, "kLeaf", "kCA")
CertNotYet == Cert("leaf", "Test CA", 120, 240, FALSE, LeafSANs, "kLeaf", "kCA")
CertExpired == Cert("leaf", "Test CA", -240, -12, FALSE, LeafSANs, "kLeaf", "kCA")
CertInverted == Cert("leaf", "Test CA", 120, -12, FALSE, LeafSANs, "kLeaf", "kCA")
CertSelfSigned == Cert("leaf", "leaf", -24, 240, FALSE, LeafSANs, "kLeaf", "kLeaf")

PemCert(c) == PemEncode("CERTIFICATE", c)

\* Certificate files a user may hold: PEM, DER, PEM after other text, PEM after
\* a key block, a block that is no certificate, a file cut short, other text.
LeafFiles ==
    {NoFile, File(PemCert(CertValid)), File(PemCert(CertNotYet)), File(PemCert(CertExpired)),
     File(PemCert(CertInverted)), File(PemCert(CertSelfSigned)), File(<<Der(CertValid)>>),
     File(PemCert(Junk)), File(<<Text>>), File(<<Begin("CERTIFICATE"), Body(CertValid)>>),
     File(<<Text>> \o PemCert(CertValid)),
     File(PemEncode("PRIVATE KEY", [kind |-> "pkcs8", key |-> "kLeaf"]) \o PemCert(CertValid))}

CAFiles ==
    {NoFile, File(PemCert(CertCA)), File(<<Der(CertCA)>>), File(<<Text>>),
     File(PemCert(Junk)), File(PemCert(CertOtherCA) \o PemCert(CertCA))}

\* Last value of the clock, in hours.
MaxClock == 2

\* ------------------------------------------------ specification: reading

InitRead ==
    /\ \E leaf \in LeafFiles, ca \in CAFiles :
         fs = [EmptyFS EXCEPT !["leaf.crt"] = leaf, !["ca.crt"] = ca]
    /\ now = 0
    /\ log = <<>>
    /\ call = NoCall
    /\ ret = NoCall

\* No call is in progress: the program is single-threaded.
Idle == ret.op = "none"

\* The caller takes the result of the last call.
Return ==
    /\ ret.op # "none"
    /\ call' = NoCall
    /\ ret' = NoCall
    /\ log' = <<>>
    /\ UNCHANGED <<fs, now>>

\* Time passes.
Tick ==
    /\ Idle
    /\ now < MaxClock
    /\ now' = now + 1
    /\ UNCHANGED <<fs, call, ret, log>>

\* A call of parseCertificate on the bytes of a file.
CallParseCertificate ==
    \E path \in Paths :
        /\ Idle
        /\ fs[path].exists
        /\ call' = [op |-> "parseCertificate", data |-> fs[path].data]
        /\ ret' = [op |-> "parseCertificate", out |-> parseCertificate(fs[path].data)]
        /\ UNCHANGED <<fs, now, log>>

\* A call of InspectFile.
CallInspectFile ==
    \E path \in Paths :
        /\ Idle
        /\ call' = [op |-> "InspectFile", path |-> path, now |-> now]
        /\ ret' = [op |-> "InspectFile", out |-> InspectFile(fs, path, now)]
        /\ UNCHANGED <<fs, now, log>>

\* A call of Verify.
CallVerify ==
    \E certPath \in Paths, caPath \in Paths \cup {""}, hostname \in Hostnames \cup {<<>>} :
        /\ Idle
        /\ call' = [op |-> "Verify", certPath |-> certPath, caPath |-> caPath,
                    hostname |-> hostname, now |-> now]
        /\ ret' = [op |-> "Verify", out |-> Verify(fs, certPath, caPath, hostname, now)]
        /\ UNCHANGED <<fs, now, log>>

NextRead == Tick \/ CallParseCertificate \/ CallInspectFile \/ CallVerify \/ Return

SpecRead == InitRead /\ [][NextRead]_vars

\* --------------------------------------------------- the verify command

\* cobra.ExactArgs(1)
ExactArgs(n, args) == IF Len(args) = n THEN "" ELSE "accepts 1 arg(s)"

\* The RunE of verifyCmd behind its argument check, at clock t: the error it
\* returns to Execute and the result it displayed.
verifyCmd(f, args, ca, host, t) ==
    IF ExactArgs(1, args) # "" THEN [err |-> ExactArgs(1, args), result |-> Nil]
    ELSE IF ~f[args[1]].exists
    THEN [err |-> "certificate file does not exist", result |-> Nil]
    ELSE
    LET v == Verify(f, args[1], ca, host, t)
    IN  IF v.err # "" THEN [err |-> v.err, result |-> Nil]
        ELSE IF ~v.result.IsValid THEN [err |-> "verification failed", result |-> v.result]
        ELSE [err |-> "", result |-> v.result]

\* The exit status of the process: main exits with 1 when Execute returns an
\* error and returns normally otherwise.
ExitFailure == 1
ExitSuccess == 0
main(err) == IF err # "" THEN ExitFailure ELSE ExitSuccess

\* ------------------------------------- specification: the verify command

ArgLists == {<<>>, <<"leaf.crt">>, <<"req.csr">>, <<"leaf.crt", "ca.crt">>}

\* A run of `verify`.
CmdVerify ==
    \E args \in ArgLists, ca \in {"", "ca.crt"}, host \in {<<>>, HostA, HostOther} :
        /\ Idle
        /\ call' = [op |-> "verify", args |-> args, ca |-> ca, host |-> host, now |-> now]
        /\ \E out \in {verifyCmd(fs, args, ca, host, now)} :
              ret' = [op |-> "verify", out |-> out, exit |-> main(out.err)]
        /\ UNCHANGED <<fs, now, log>>

NextVerifyCmd == Tick \/ CmdVerify \/ Return

SpecVerifyCmd == InitRead /\ [][NextVerifyCmd]_vars

\* --------------------------------------------- specification: conversion

\* A certificate whose subject spells a PEM block.
CertArmored == Cert(SubjectArmored, "Test CA", -24, 240, FALSE, NoSANs, "kLeaf", "kCA")

\* Files handed to Convert: PEM, DER, PEM after other text, a certificate
\* whose subject spells a PEM block, and files that hold no certificate.
ConvertFiles ==
    {NoFile, File(PemCert(CertValid)), File(<<Der(CertValid)>>),
     File(<<Text>> \o PemCert(CertExpired)), File(PemCert(CertArmored)),
     File(PemCert(Junk)), File(<<Text>>)}

ConvertPaths == {"leaf.crt", "ca.crt"}

FormatArgs == {FormatArgPEM, FormatArgDER, <<"P", "E", "M">>, <<"D", "E", "R">>,
               <<"x", "y", "z">>, <<>>}

WriteEnvs == {[fault |-> x] : x \in {"none", "open", "write"}}

InitConvert ==
    /\ \E leaf \in ConvertFiles : fs = [EmptyFS EXCEPT !["leaf.crt"] = leaf]
    /\ now = 0
    /\ log = <<>>
    /\ call = NoCall
    /\ ret = NoCall

\* A call of Convert.
CallConvert ==
    \E inputPath \in ConvertPaths, outputPath \in ConvertPaths, format \in FormatArgs,
       env \in WriteEnvs :
        /\ Idle
        /\ call' = [op |-> "Convert", inputPath |-> inputPath, outputPath |-> outputPath,
                    format |-> format, env |-> env, pre |-> fs]
        /\ ret' = [op |-> "Convert", out |-> Convert(fs, inputPath, outputPath, format, env)]
        /\ fs' = ret'.out.fs
        /\ UNCHANGED <<now, log>>

NextConvert == CallConvert \/ CallInspectFile \/ Return

SpecConvert == InitConvert /\ [][NextConvert]_vars

\* ---------------------------------------------------------------- SignCSR

ErrCSRRead == "failed to read CSR"
ErrCSRBlock == "failed to parse CSR PEM block"
ErrCSRParse == "failed to parse CSR"
ErrCSRSignature == "CSR signature verification failed"
ErrCARead == "failed to read CA certificate"
ErrCABlock == "failed to parse CA certificate PEM block"
ErrCAParse == "failed to parse CA certificate"
ErrKeyRead == "failed to read CA private key"
ErrKeyBlock == "failed to parse CA private key PEM block"
ErrKeyParse == "failed to parse CA private key"
ErrSerial == "failed to generate serial number"
ErrCreateCert == "failed to create certificate"
ErrCreateFile == "failed to create certificate file"
ErrWrite == "failed to write certificate"

\* The file-system calls a run makes, as they are logged in order.
EvRead(path) == [ev |-> "read", path |-> path]
EvCreate(path) == [ev |-> "create", path |-> path]
EvWrite(path, n) == [ev |-> "write", path |-> path, chunks |-> n]

\* A request: its subject, its SANs, its public key, and whether its
\* self-signature verifies.
CSR(subject, sans, pub, sigOK) ==
    [kind |-> "csr", subject |-> subject, dns |-> sans.dns, ips |-> sans.ips,
     emails |-> sans.emails, uris |-> sans.uris, pub |-> pub, sigOK |-> sigOK]

\* A variant that accepts every request.
CheckSignatureSkipped(csr) == TRUE

\* x509.CertificateRequest.CheckSignature
CheckSignature(csr) == csr.sigOK

\* x509.ParsePKCS8PrivateKey, then x509.ParsePKCS1PrivateKey on its failure.
ParsePrivateKey(bytes) ==
    IF bytes.kind = "pkcs8" THEN [ok |-> TRUE, key |-> bytes.key]
    ELSE IF bytes.kind = "pkcs1" THEN [ok |-> TRUE, key |-> bytes.key]
    ELSE Nil

\* A variant that adds the override to the request's own SANs.
TemplateSANsMerged(options, csr) ==
    LET s == splitSANs(options.SANs)
    IN  [dns |-> csr.dns \o s.dns, ips |-> csr.ips \o s.ips,
         emails |-> csr.emails \o s.emails, uris |-> csr.uris \o s.uris]

\* A variant that falls back to the request's SANs when nothing of the
\* override survives classification.
TemplateSANsFallback(options, csr) ==
    LET s == splitSANs(options.SANs)
    IN  IF Len(s.dns) + Len(s.ips) + Len(s.emails) + Len(s.uris) > 0
        THEN [dns |-> s.dns, ips |-> s.ips, emails |-> s.emails, uris |-> s.uris]
        ELSE [dns |-> csr.dns, ips |-> csr.ips, emails |-> csr.emails, uris |-> csr.uris]

\* The SAN policy of SignCSR: the classified override when one is given, else
\* the request's own lists.
TemplateSANs(options, csr) ==
    IF Len(options.SANs) > 0
    THEN LET s == splitSANs(options.SANs)
         IN  [dns |-> <<>> \o s.dns, ips |-> <<>> \o s.ips,
              emails |-> IF Len(s.emails) > 0 THEN <<>> \o s.emails ELSE <<>>,
              uris |-> IF Len(s.uris) > 0 THEN <<>> \o s.uris ELSE <<>>]
    ELSE [dns |-> csr.dns, ips |-> csr.ips, emails |-> csr.emails, uris |-> csr.uris]

\* A variant that issues a CA certificate.
LeafTemplateCA(options, csr, t) ==
    [Subject |-> csr.subject, NotBefore |-> t, NotAfter |-> t + options.Days * HoursPerDay,
     IsCA |-> TRUE, SANs |-> TemplateSANs(options, csr)]

\* The template of SignCSR, at clock t.
LeafTemplate(options, csr, t) ==
    [Subject |-> csr.subject, NotBefore |-> t, NotAfter |-> t + options.Days * HoursPerDay,
     IsCA |-> FALSE, SANs |-> TemplateSANs(options, csr)]

\* x509.CreateCertificate: fails when the random source fails or the private
\* key is not the parent's; the issuer is the parent's subject.
CreateCertificate(template, parent, pub, priv, env) ==
    IF ~env.signOK \/ priv # parent.pub THEN Nil
    ELSE [ok |-> TRUE,
          bytes |-> Cert(template.Subject, parent.subject, template.NotBefore,
                         template.NotAfter, template.IsCA, template.SANs, pub, priv)]

Abort(msg, f, lg) == [err |-> msg, fs |-> f, log |-> lg]

\* The end of SignCSR: os.Create, then pem.Encode, whose writes may fail
\* after env.written of them.
WriteCertificate(f, certPath, certBytes, lg, env) ==
    LET lgc == Append(lg, EvCreate(certPath))
        pem == PemEncode("CERTIFICATE", certBytes)
        n == IF env.written < Len(pem) THEN env.written ELSE Len(pem)
        written == [f EXCEPT ![certPath] = File(SubSeq(pem, 1, n))]
    IN  IF ~env.createOK THEN Abort(ErrCreateFile, f, lgc)
        ELSE IF n < Len(pem) THEN Abort(ErrWrite, written, Append(lgc, EvWrite(certPath, n)))
        ELSE [err |-> "", fs |-> written, log |-> Append(lgc, EvWrite(certPath, n))]

\* SignCSR at clock t: the error, the file system it leaves and its log.
SignCSR(f, options, certPath, t, env) ==
    LET lg1 == <<EvRead(options.CSRPath)>>
        lg2 == Append(lg1, EvRead(options.CACert))
        lg3 == Append(lg2, EvRead(options.CAKey))
        csrData == ReadFile(f, options.CSRPath)
    IN  IF ~csrData.ok THEN Abort(ErrCSRRead, f, lg1) ELSE
        LET block == PemDecode(csrData.data)
        IN  IF ~block.ok THEN Abort(ErrCSRBlock, f, lg1) ELSE
        LET csr == X509ParseCertificateRequest(block.Bytes)
        IN  IF ~csr.ok THEN Abort(ErrCSRParse, f, lg1) ELSE
            IF ~CheckSignature(csr.csr) THEN Abort(ErrCSRSignature, f, lg1) ELSE
        LET caCertData == ReadFile(f, options.CACert)
        IN  IF ~caCertData.ok THEN Abort(ErrCARead, f, lg2) ELSE
        LET caBlock == PemDecode(caCertData.data)
        IN  IF ~caBlock.ok THEN Abort(ErrCABlock, f, lg2) ELSE
        LET caCert == X509ParseCertificate(caBlock.Bytes)
        IN  IF ~caCert.ok THEN Abort(ErrCAParse, f, lg2) ELSE
        LET caKeyData == ReadFile(f, options.CAKey)
        IN  IF ~caKeyData.ok THEN Abort(ErrKeyRead, f, lg3) ELSE
        LET keyBlock == PemDecode(caKeyData.data)
        IN  IF ~keyBlock.ok THEN Abort(ErrKeyBlock, f, lg3) ELSE
        LET caKey == ParsePrivateKey(keyBlock.Bytes)
        IN  IF ~caKey.ok THEN Abort(ErrKeyParse, f, lg3) ELSE
            IF ~env.randOK THEN Abort(ErrSerial, f, lg3) ELSE
        LET template == LeafTemplate(options, csr.csr, t)
            certBytes == CreateCertificate(template, caCert.cert, csr.csr.pub, caKey.key, env)
        IN  IF ~certBytes.ok THEN Abort(ErrCreateCert, f, lg3)
            ELSE WriteCertificate(f, certPath, certBytes.bytes, lg3, env)

\* --------------------------------------------- specification: signing

CsrSANs == [dns |-> <<SanDNS, SanWildcard>>, ips |-> << <<0, 0, 0, 0, 0, 0, 0, 1>> >>,
            emails |-> << <<"a", "@", "b">> >>, uris |-> <<>>]
CsrWithSANs == CSR("leaf", CsrSANs, "kLeaf", TRUE)
CsrNoSANs == CSR("leaf", NoSANs, "kLeaf", TRUE)
CsrForged == CSR("leaf", CsrSANs, "kLeaf", FALSE)

PemCSR(c) == PemEncode("CERTIFICATE REQUEST", c)
PemKey(kind, k) == PemEncode("PRIVATE KEY", [kind |-> kind, key |-> k])

CSRFiles ==
    {NoFile, File(<<Text>>), File(PemCSR(Junk)), File(PemCSR(CsrForged)),
     File(PemCSR(CsrWithSANs)), File(PemCSR(CsrNoSANs))}

SignCAFiles ==
    {NoFile, File(<<Text>>), File(PemCert(Junk)), File(<<Der(CertCA)>>), File(PemCert(CertCA))}

KeyFiles ==
    {NoFile, File(<<Text>>), File(PemKey("sec1", "kCA")), File(PemKey("pkcs8", "kCA")),
     File(PemKey("pkcs1", "kCA")), File(PemKey("pkcs8", "kOther"))}

OutFiles == {NoFile, File(PemCert(CertExpired))}

SanOverride == <<"x", ".", "c", "o">>
OverrideEntries == {SanOverride, SanIP, SanIPBad, SanEmail}

\* Longest SAN override list handed to SignCSR.
MaxOverride == 2

\* What the environment may do to a run: the random source, the creation of
\* the output file, and how many of pem.Encode's writes succeed.
\* A run stops at its first fault, so at most one is drawn.
Envs ==
    {e \in [randOK : BOOLEAN, signOK : BOOLEAN, createOK : BOOLEAN, written : 0..3] :
        Cardinality({x \in {"rand", "sign", "create", "write"} :
            \/ x = "rand" /\ ~e.randOK
            \/ x = "sign" /\ ~e.signOK
            \/ x = "create" /\ ~e.createOK
            \/ x = "write" /\ e.written < 3}) <= 1}

InitSign ==
    /\ \E csr \in CSRFiles, ca \in SignCAFiles, key \in KeyFiles, out \in OutFiles :
         fs = [p \in Paths |-> CASE p = "req.csr" -> csr [] p = "ca.crt" -> ca
                                 [] p = "ca.key" -> key [] OTHER -> out]
    /\ now = 0
    /\ log = <<>>
    /\ call = NoCall
    /\ ret = NoCall

\* A call of SignCSR.
CallSignCSR ==
    \E sans \in BoundedSeq(OverrideEntries, MaxOverride), env \in Envs :
        LET options == [CSRPath |-> "req.csr", CACert |-> "ca.crt", CAKey |-> "ca.key",
                        Days |-> 1, SANs |-> sans]
            out == SignCSR(fs, options, "leaf.crt", now, env)
        IN  /\ Idle
            /\ call' = [op |-> "SignCSR", options |-> options, certPath |-> "leaf.crt",
                        now |-> now, env |-> env, pre |-> fs]
            /\ ret' = [op |-> "SignCSR", err |-> out.err]
            /\ fs' = out.fs
            /\ log' = out.log
            /\ UNCHANGED now

NextSign == CallSignCSR \/ CallInspectFile \/ Return

SpecSign == InitSign /\ [][NextSign]_vars

\* ----------------------------------------------------------- generators

\* A path is the sequence of its components; a component and a file name are
\* sequences of bytes.
RECURSIVE SplitSlash(_)
\* The components of a slash-separated name.
SplitSlash(s) ==
    LET d == IndexOf(s, "/")
    IN  IF d = 0 THEN <<s>> ELSE <<SubSeq(s, 1, d - 1)>> \o SplitSlash(SliceFrom(s, d))

DotDot == <<".", ".">>

RECURSIVE CleanPath(_, _)
\* filepath.Clean on a relative path: empty and "." components go, ".." takes
\* the component before it with it, or stays when there is none to take.
CleanPath(done, rest) ==
    IF rest = <<>> THEN done
    ELSE LET c == Head(rest)
         IN  IF c = <<>> \/ c = <<".">> THEN CleanPath(done, Tail(rest))
             ELSE IF c = DotDot /\ done # <<>> /\ done[Len(done)] # DotDot
             THEN CleanPath(SubSeq(done, 1, Len(done) - 1), Tail(rest))
             ELSE CleanPath(Append(done, c), Tail(rest))

\* filepath.Join(dir, name)
Join(dir, name) == CleanPath(<<>>, dir \o SplitSlash(name))

\* filepath.Dir of a cleaned path.
Dir(path) == SubSeq(path, 1, Len(path) - 1)

\* The characters sanitizeFilename replaces.
Problematic == {"/", "\\", ":", "*", "?", "\"", "<", ">", "|", " "}

\* sanitizeFilename: each problematic character becomes an underscore.
sanitizeFilename(name) ==
    [i \in 1..Len(name) |-> IF name[i] \in Problematic THEN "_" ELSE name[i]]

\* sanitizeCAFilename
sanitizeCAFilename(name) == sanitizeFilename(name)

ExtCrt == <<".", "c", "r", "t">>
ExtKey == <<".", "k", "e", "y">>
ExtCsr == <<".", "c", "s", "r">>
SuffixCA == <<"-", "c", "a">>

\* File modes, as ls prints them in octal.
Mode0600 == "0600"
Mode0644 == "0644"
Mode0755 == "0755"

\* A directory, and a regular file with its mode.
Directory == [exists |-> TRUE, dir |-> TRUE, mode |-> Mode0755]
FileMode(data, mode) == [exists |-> TRUE, data |-> data, mode |-> mode]

IsDir(f, path) == path = <<>> \/ (path \in DOMAIN f /\ f[path].exists /\ "dir" \in DOMAIN f[path])

\* The system calls of a generator, as they are logged in order, each with
\* the mode and the number of chunks the file has after it.
EvMkdirAll(path) == [ev |-> "mkdirall", path |-> path]
EvCreateFile(path, mode) == [ev |-> "create", path |-> path, mode |-> mode, chunks |-> 0]
EvWriteFile(path, mode, n) == [ev |-> "write", path |-> path, mode |-> mode, chunks |-> n]
EvChmod(path, mode, n) == [ev |-> "chmod", path |-> path, mode |-> mode, chunks |-> n]

\* os.MkdirAll(dir, 0755) for a path of one component under the working
\* directory.
MkdirAll(f, dir) == IF IsDir(f, dir) THEN f ELSE [f EXCEPT ![dir] = Directory]

\* os.Create followed by pem.Encode of one block: the file is created with
\* the mode the umask leaves (an existing file is truncated and keeps its
\* mode) and fails when its directory does not exist; the result carries the
\* error, the file system and the log.
CreateAndEncode(f, lg, path, type, bytes, env, what) ==
    IF ~IsDir(f, Dir(path)) \/ IsDir(f, path) \/ env.fault = <<"create", what>>
    THEN [err |-> "create", fs |-> f, log |-> lg]
    ELSE
    LET mode == IF f[path].exists THEN f[path].mode ELSE env.createMode
        created == [f EXCEPT ![path] = FileMode(<<>>, mode)]
        lgc == Append(lg, EvCreateFile(path, mode))
        pem == PemEncode(type, bytes)
    IN  IF env.fault = <<"write", what>>
        THEN [err |-> "write",
              fs |-> [f EXCEPT ![path] = FileMode(SubSeq(pem, 1, 1), mode)],
              log |-> Append(lgc, EvWriteFile(path, mode, 1))]
        ELSE [err |-> "",
              fs |-> [f EXCEPT ![path] = FileMode(pem, mode)],
              log |-> Append(lgc, EvWriteFile(path, mode, Len(pem)))]

\* A variant that restricts nothing.
ChmodKeySkipped(f, lg, keyPath, env) == [err |-> "", fs |-> f, log |-> lg]

\* The end of Generate and GenerateCA: os.Chmod(keyPath, 0600) unless the
\* system is Windows.
ChmodKey(f, lg, keyPath, env) ==
    IF env.goos = "windows" THEN [err |-> "", fs |-> f, log |-> lg]
    ELSE IF env.fault = <<"chmod", "key">>
    THEN [err |-> "failed to set key permissions", fs |-> f, log |-> lg]
    ELSE [err |-> "",
          fs |-> [f EXCEPT ![keyPath].mode = Mode0600],
          log |-> Append(lg, EvChmod(keyPath, Mode0600, Len(f[keyPath].data)))]

\* time.Time.AddDate(0, 0, days): the same wall-clock time days later, which
\* is days * 24 hours shifted by the change of the zone's offset in between.
AddDate(t, days, shift) == t + days * HoursPerDay + (IF days = 0 THEN 0 ELSE shift)

NewKey == "kNew"
PKCS8(k) == [kind |-> "pkcs8", key |-> k]

\* crypto/x509 writes DNS names and email addresses as IA5String and refuses
\* a name with a byte outside ASCII (marshalSANs).
IsIA5String(s) == \A i \in 1..Len(s) : s[i] \notin NonASCII
MarshalSANsOK(sans) ==
    /\ \A i \in 1..Len(sans.dns) : IsIA5String(sans.dns[i])
    /\ \A i \in 1..Len(sans.emails) : IsIA5String(sans.emails[i])

\* A variant that leaves the IP bucket out.
GenerateSANsDNSOnly(sans) ==
    IF Len(sans) > 0
    THEN [dns |-> splitSANs(sans).dns, ips |-> <<>>, emails |-> <<>>, uris |-> <<>>]
    ELSE NoSANs

\* The DNS and IP buckets of the SANs, as Generate adds them.
GenerateSANs(sans) ==
    IF Len(sans) > 0
    THEN [dns |-> splitSANs(sans).dns, ips |-> splitSANs(sans).ips, emails |-> <<>>, uris |-> <<>>]
    ELSE NoSANs

\* The certificate and key files of a generator, after the certificate is
\* signed: certificate, key, then the chmod of the key.
WriteCertAndKey(f, lg, certPath, keyPath, certBytes, env) ==
    LET c == CreateAndEncode(f, lg, certPath, "CERTIFICATE", certBytes, env, "cert")
    IN  IF c.err = "create" THEN [c EXCEPT !.err = "failed to create cert file"]
        ELSE IF c.err = "write" THEN [c EXCEPT !.err = "failed to write certificate"]
        ELSE
        LET k == CreateAndEncode(c.fs, c.log, keyPath, "PRIVATE KEY", PKCS8(NewKey), env, "key")
        IN  IF k.err = "create" THEN [k EXCEPT !.err = "failed to create key file"]
            ELSE IF k.err = "write" THEN [k EXCEPT !.err = "failed to write private key"]
            ELSE ChmodKey(k.fs, k.log, keyPath, env)

\* Generate at clock t: the error, the file system it leaves and its log.
Generate(f, opts, t, env) ==
    IF env.fault = <<"keygen", "key">>
    THEN [err |-> "failed to generate private key", fs |-> f, log |-> <<>>]
    ELSE
    LET certDER == Cert(opts.CommonName, opts.CommonName, t, AddDate(t, opts.Days, env.shift),
                        FALSE, GenerateSANs(opts.SANs), NewKey, NewKey)
        made == MkdirAll(f, opts.OutputDir)
        lg == <<EvMkdirAll(opts.OutputDir)>>
        certPath == Join(opts.OutputDir, opts.CommonName \o ExtCrt)
        keyPath == Join(opts.OutputDir, opts.CommonName \o ExtKey)
    IN  IF env.fault = <<"sign", "cert">> \/ ~MarshalSANsOK(GenerateSANs(opts.SANs))
        THEN [err |-> "failed to create certificate", fs |-> f, log |-> <<>>]
        ELSE IF env.fault = <<"mkdir", "dir">>
        THEN [err |-> "failed to create output directory", fs |-> f, log |-> lg]
        ELSE WriteCertAndKey(made, lg, certPath, keyPath, certDER, env)

\* GenerateCA at clock t.
GenerateCA(f, options, certPath, keyPath, t, env) ==
    IF env.fault = <<"keygen", "key">>
    THEN [err |-> "failed to generate private key", fs |-> f, log |-> <<>>]
    ELSE
    LET certBytes == Cert(options.CommonName, options.CommonName, t,
                          AddDate(t, options.Days, env.shift), TRUE, NoSANs, NewKey, NewKey)
    IN  IF env.fault = <<"sign", "cert">>
        THEN [err |-> "failed to create certificate", fs |-> f, log |-> <<>>]
        ELSE WriteCertAndKey(f, <<>>, certPath, keyPath, certBytes, env)

\* The SANs of the request GenerateCSR builds.
RequestSANs(options) ==
    LET s == splitSANs(options.SANs)
    IN  [dns |-> s.dns, ips |-> s.ips,
         emails |-> (IF options.EmailAddress # <<>> THEN <<options.EmailAddress>> ELSE <<>>)
                    \o s.emails,
         uris |-> s.uris]

\* A variant that ends with the chmod of the key file, as Generate does.
GenerateCSRRestricted(f, options, csrPath, keyPath, env) ==
    IF env.fault = <<"keygen", "key">>
    THEN [err |-> "failed to generate private key", fs |-> f, log |-> <<>>]
    ELSE
    LET csrBytes == CSR(options.CommonName, RequestSANs(options), NewKey, TRUE)
        c == CreateAndEncode(f, <<>>, csrPath, "CERTIFICATE REQUEST", csrBytes, env, "cert")
    IN  IF ~MarshalSANsOK(RequestSANs(options))
        THEN [err |-> "failed to create CSR", fs |-> f, log |-> <<>>]
        ELSE IF c.err = "create" THEN [c EXCEPT !.err = "failed to create CSR file"]
        ELSE IF c.err = "write" THEN [c EXCEPT !.err = "failed to write CSR"]
        ELSE
        LET k == CreateAndEncode(c.fs, c.log, keyPath, "PRIVATE KEY", PKCS8(NewKey), env, "key")
        IN  IF k.err = "create" THEN [k EXCEPT !.err = "failed to create private key file"]
            ELSE IF k.err = "write" THEN [k EXCEPT !.err = "failed to write private key"]
            ELSE ChmodKey(k.fs, k.log, keyPath, env)

\* GenerateCSR: the request file, then the key file, and no chmod.
GenerateCSR(f, options, csrPath, keyPath, env) ==
    IF env.fault = <<"keygen", "key">>
    THEN [err |-> "failed to generate private key", fs |-> f, log |-> <<>>]
    ELSE
    LET csrBytes == CSR(options.CommonName, RequestSANs(options), NewKey, TRUE)
        c == CreateAndEncode(f, <<>>, csrPath, "CERTIFICATE REQUEST", csrBytes, env, "cert")
    IN  IF ~MarshalSANsOK(RequestSANs(options))
        THEN [err |-> "failed to create CSR", fs |-> f, log |-> <<>>]
        ELSE IF c.err = "create" THEN [c EXCEPT !.err = "failed to create CSR file"]
        ELSE IF c.err = "write" THEN [c EXCEPT !.err = "failed to write CSR"]
        ELSE
        LET k == CreateAndEncode(c.fs, c.log, keyPath, "PRIVATE KEY", PKCS8(NewKey), env, "key")
        IN  IF k.err = "create" THEN [k EXCEPT !.err = "failed to create private key file"]
            ELSE IF k.err = "write" THEN [k EXCEPT !.err = "failed to write private key"]
            ELSE k

\* ------------------------------------------------- generator commands

\* What the command did not get to.
NotRun == [val |-> Nil, err |-> "not run"]

\* The generate command: Generate with the flags as they are, then InspectFile
\* of the certificate path to display it, elapsed hours after the clock
\* reading of Generate.
generateCmd(f, cn, days, sans, output, t, elapsed, env) ==
    LET opts == [CommonName |-> cn, Days |-> days, SANs |-> sans, OutputDir |-> output]
        g == Generate(f, opts, t, env)
        certPath == Join(output, cn \o ExtCrt)
        keyPath == Join(output, cn \o ExtKey)
    IN  [err |-> g.err, fs |-> g.fs, log |-> g.log, certPath |-> certPath, keyPath |-> keyPath,
         inspected |-> IF g.err = "" THEN InspectFile(g.fs, certPath, t + elapsed) ELSE NotRun]

\* The ca command: the file names come from the sanitized common name; then
\* GenerateCA, and InspectFile of the certificate to display it.
caCmd(f, cn, days, output, t, elapsed, env) ==
    LET options == [CommonName |-> cn, Days |-> days]
        certPath == Join(output, sanitizeCAFilename(cn) \o SuffixCA \o ExtCrt)
        keyPath == Join(output, sanitizeCAFilename(cn) \o SuffixCA \o ExtKey)
        g == GenerateCA(f, options, certPath, keyPath, t, env)
    IN  [err |-> g.err, fs |-> g.fs, log |-> g.log, certPath |-> certPath, keyPath |-> keyPath,
         inspected |-> IF g.err = "" THEN InspectFile(g.fs, certPath, t + elapsed) ELSE NotRun]

\* The csr command: the file names come from the sanitized common name; then
\* GenerateCSR.
csrCmd(f, cn, email, sans, output, env) ==
    LET options == [CommonName |-> cn, EmailAddress |-> email, SANs |-> sans]
        csrPath == Join(output, sanitizeFilename(cn) \o ExtCsr)
        keyPath == Join(output, sanitizeFilename(cn) \o ExtKey)
        g == GenerateCSR(f, options, csrPath, keyPath, env)
    IN  [err |-> g.err, fs |-> g.fs, log |-> g.log, certPath |-> csrPath, keyPath |-> keyPath,
         inspected |-> NotRun]

\* --------------------------------------------- specification: generators

OutDir == << <<"o">> >>
NewDir == << <<"n">> >>
OutputDirs == {OutDir, NewDir}

CNPlain == <<"a">>
CNSlash == <<"a", "/", "b">>
CNUp == <<".", ".", "/", "x">>
CNSpace == <<"a", " ", "b">>
CommonNames == {CNPlain, CNSlash, CNUp, CNSpace}

\* Every path a command of the model can name, and the directories.
GenPaths ==
    OutputDirs
    \cup {Join(d, n \o e) : d \in OutputDirs, e \in {ExtCrt, ExtKey},
                            n \in CommonNames}
    \cup {Join(d, sanitizeFilename(n) \o e) : d \in OutputDirs, e \in {ExtCsr, ExtKey},
                                             n \in CommonNames}
    \cup {Join(d, sanitizeFilename(n) \o SuffixCA \o e) : d \in OutputDirs, e \in {ExtCrt, ExtKey},
                                                         n \in CommonNames}

\* Largest validity, in days, asked of a generator; the smallest is -1.
MaxDays == 2

\* Longest time, in hours, between the clock reading of a generator and that
\* of the InspectFile that follows it (the second reading is always later).
MaxElapsed == 2

NoFault == <<"none", "none">>
Faults == {<<"keygen", "key">>, <<"sign", "cert">>, <<"mkdir", "dir">>, <<"write", "cert">>,
           <<"create", "key">>, <<"write", "key">>, <<"chmod", "key">>}

\* What the environment may do to a run: the mode the umask leaves a new
\* file, the operating system, the daylight-saving shift over the validity,
\* and at most one failing step.
GenEnvs ==
    {[createMode |-> Mode0644, goos |-> "linux", fault |-> NoFault, shift |-> sh] : sh \in {-1, 0, 1}}
    \cup {[createMode |-> Mode0600, goos |-> "linux", fault |-> NoFault, shift |-> 0],
          [createMode |-> Mode0644, goos |-> "windows", fault |-> NoFault, shift |-> 0]}
    \cup {[createMode |-> Mode0644, goos |-> "linux", fault |-> ft, shift |-> 0] : ft \in Faults}

\* A DNS name with a byte outside ASCII.
SanDNSDotted == CapitalDottedI \o <<".", "c", "o">>

GenSANs == {<<>>, <<SanDNS, SanIP, SanEmail>>, <<SanIPBad, SanURI>>,
            <<SanWildcard, SanIPLower, SanIP6, SanEmailDotted, SanDNS>>, <<SanDNS, SanDNSDotted>>}

\* The output directory exists, the other does not; a key file of an earlier
\* run may be there, world-readable.
InitGen ==
    /\ \E old \in {NoFile, FileMode(PemKey("pkcs8", "kOld"), Mode0644)} :
         fs = [p \in GenPaths |-> IF p = OutDir THEN Directory
                                  ELSE IF p = Join(OutDir, CNPlain \o ExtKey) THEN old
                                  ELSE NoFile]
    /\ now = 0
    /\ log = <<>>
    /\ call = NoCall
    /\ ret = NoCall

\* A run of the generate command.
CmdGenerate ==
    \E cn \in CommonNames, days \in (-1)..MaxDays, sans \in GenSANs, output \in OutputDirs,
       elapsed \in 1..MaxElapsed, env \in GenEnvs :
        /\ Idle
        /\ call' = [op |-> "generate", cn |-> cn, days |-> days, sans |-> sans,
                    output |-> output, now |-> now, elapsed |-> elapsed, env |-> env,
                    pre |-> fs]
        /\ ret' = [op |-> "generate",
                   out |-> generateCmd(fs, cn, days, sans, output, now, elapsed, env)]
        /\ fs' = ret'.out.fs
        /\ log' = ret'.out.log
        /\ now' = now + elapsed

\* A run of the ca command.
CmdCA ==
    \E cn \in CommonNames, days \in {0, MaxDays}, output \in OutputDirs,
       elapsed \in 1..MaxElapsed, env \in GenEnvs :
        /\ Idle
        /\ call' = [op |-> "ca", cn |-> cn, days |-> days, sans |-> <<>>,
                    output |-> output, now |-> now, elapsed |-> elapsed, env |-> env,
                    pre |-> fs]
        /\ ret' = [op |-> "ca", out |-> caCmd(fs, cn, days, output, now, elapsed, env)]
        /\ fs' = ret'.out.fs
        /\ log' = ret'.out.log
        /\ now' = now + elapsed

\* A run of the csr command.
CmdCSR ==
    \E cn \in CommonNames, sans \in GenSANs, output \in OutputDirs, env \in GenEnvs :
        /\ Idle
        /\ call' = [op |-> "csr", cn |-> cn, days |-> 0, sans |-> sans,
                    output |-> output, now |-> now, elapsed |-> 0, env |-> env, pre |-> fs]
        /\ ret' = [op |-> "csr", out |-> csrCmd(fs, cn, <<>>, sans, output, env)]
        /\ fs' = ret'.out.fs
        /\ log' = ret'.out.log
        /\ UNCHANGED now

\* The process runs one command and exits.
NextGen == CmdGenerate \/ CmdCA \/ CmdCSR

SpecGen == InitGen /\ [][NextGen]_vars

\* ------------------------------------------------- remote inspection

\* The decimal digits, and strconv.Itoa / fmt's %d for a natural number.
Digits == <<"0", "1", "2", "3", "4", "5", "6", "7", "8", "9">>

RECURSIVE Itoa(_)
Itoa(n) == IF n < 10 THEN <<Digits[n + 1]>> ELSE Itoa(n \div 10) \o <<Digits[(n % 10) + 1]>>

\* strings.Contains
Contains(s, sub) ==
    \E i \in 1..(Len(s) - Len(sub) + 1) : SubSeq(s, i, i + Len(sub) - 1) = sub

\* The index of the last c in s, 0 when there is none (strings.LastIndex + 1).
LastIndexOf(s, c) ==
    IF \E i \in 1..Len(s) : s[i] = c
    THEN CHOOSE i \in 1..Len(s) : s[i] = c /\ \A j \in (i + 1)..Len(s) : s[j] # c
    ELSE 0

SchemeSep == <<":", "/", "/">>
HTTPS == <<"h", "t", "t", "p", "s">>

\* url.Parse of an absolute URL, as far as InspectURLWithOptions reads it:
\* the scheme, the authority split at its last colon into host and port (a
\* port that is not a number is an error), and the path.
URLParse(s) ==
    LET u == ParseURL(s)
    IN  IF ~u.ok THEN Nil
        ELSE IF ~HasPrefix(u.rest, <<"/", "/">>)
        THEN [ok |-> TRUE, scheme |-> u.scheme, hasAuth |-> FALSE, host |-> <<>>,
              port |-> <<>>, auth |-> <<>>, path |-> u.rest]
        ELSE
        LET r == SliceFrom(u.rest, 2)
            slash == IndexOf(r, "/")
            auth == IF slash = 0 THEN r ELSE SubSeq(r, 1, slash - 1)
            path == IF slash = 0 THEN <<>> ELSE SliceFrom(r, slash - 1)
            colon == LastIndexOf(auth, ":")
            host == IF colon = 0 THEN auth ELSE SubSeq(auth, 1, colon - 1)
            port == IF colon = 0 THEN <<>> ELSE SliceFrom(auth, colon)
        IN  IF \E i \in 1..Len(port) : \A d \in 1..10 : port[i] # Digits[d] THEN Nil
            ELSE [ok |-> TRUE, scheme |-> u.scheme, hasAuth |-> TRUE, host |-> host,
                  port |-> port, auth |-> auth, path |-> path]

\* url.URL.Hostname, url.URL.Port and url.URL.String
Hostname(u) == u.host
Port(u) == u.port
URLString(u) ==
    (IF u.scheme # <<>> THEN u.scheme \o <<":">> ELSE <<>>)
    \o (IF u.hasAuth THEN <<"/", "/">> \o u.auth ELSE <<>>)
    \o u.path

\* net.JoinHostPort, and fmt.Sprintf("%s:%d", host, port)
JoinHostPort(host, port) ==
    IF IndexOf(host, ":") > 0 THEN <<"[">> \o host \o <<"]", ":">> \o port
    ELSE host \o <<":">> \o port
SprintfHostPort(host, port) == host \o <<":">> \o Itoa(port)

\* tls.VersionTLS12
VersionTLS12 == 771

\* A cipher suite of TLS 1.2 and below: its key exchange, the key type of the
\* certificate it authenticates with, and its cipher.
Suite(kx, auth, enc) == [kx |-> kx, auth |-> auth, enc |-> enc]

\* The suite lists of InspectURLWithOptions.
SuitesECDSA ==
    <<Suite("ECDHE", "ECDSA", "AES_128_GCM_SHA256"), Suite("ECDHE", "ECDSA", "AES_256_GCM_SHA384"),
      Suite("ECDHE", "ECDSA", "CHACHA20_POLY1305"), Suite("ECDHE", "ECDSA", "AES_128_CBC_SHA256"),
      Suite("ECDHE", "ECDSA", "AES_128_CBC_SHA"), Suite("ECDHE", "ECDSA", "AES_256_CBC_SHA")>>
SuitesRSA ==
    <<Suite("ECDHE", "RSA", "AES_128_GCM_SHA256"), Suite("ECDHE", "RSA", "AES_256_GCM_SHA384"),
      Suite("ECDHE", "RSA", "CHACHA20_POLY1305"), Suite("ECDHE", "RSA", "AES_128_CBC_SHA256"),
      Suite("ECDHE", "RSA", "AES_128_CBC_SHA"), Suite("ECDHE", "RSA", "AES_256_CBC_SHA"),
      Suite("RSA", "RSA", "AES_128_GCM_SHA256"), Suite("RSA", "RSA", "AES_256_GCM_SHA384")>>

SigECDSA == <<"e", "c", "d", "s", "a">>
SigRSA == <<"r", "s", "a">>
SigAuto == <<"a", "u", "t", "o">>

\* The zero values of tls.Config.CipherSuites and MaxVersion: the defaults
\* of crypto/tls apply.
DefaultSuites == <<>>
DefaultMaxVersion == 0

\* A variant whose RSA preference does not cap the protocol version.
TLSConfigUncapped(serverName, sigAlg) ==
    LET base == [InsecureSkipVerify |-> TRUE, ServerName |-> serverName,
                 CipherSuites |-> DefaultSuites, MaxVersion |-> DefaultMaxVersion]
    IN  CASE ToLower(sigAlg) = SigECDSA ->
                 [base EXCEPT !.CipherSuites = SuitesECDSA, !.MaxVersion = VersionTLS12]
          [] ToLower(sigAlg) = SigRSA -> [base EXCEPT !.CipherSuites = SuitesRSA]
          [] OTHER -> base

\* The tls.Config of InspectURLWithOptions: the switch on the lower-cased
\* signature-algorithm preference.
TLSConfig(serverName, sigAlg) ==
    LET base == [InsecureSkipVerify |-> TRUE, ServerName |-> serverName,
                 CipherSuites |-> DefaultSuites, MaxVersion |-> DefaultMaxVersion]
    IN  CASE ToLower(sigAlg) = SigECDSA ->
                 [base EXCEPT !.CipherSuites = SuitesECDSA, !.MaxVersion = VersionTLS12]
          [] ToLower(sigAlg) = SigRSA ->
                 [base EXCEPT !.CipherSuites = SuitesRSA, !.MaxVersion = VersionTLS12]
          [] OTHER -> base

\* A variant that names the connect host in the handshake when one is given.
ServerNameOfDialed(u, connectHost) == IF connectHost # <<>> THEN connectHost ELSE Hostname(u)

\* serverName := u.Hostname()
ServerNameOf(u, connectHost) == Hostname(u)

\* The address InspectURLWithOptions dials.
DialHost(u, port, connectHost) ==
    IF connectHost # <<>> THEN SprintfHostPort(connectHost, port)
    ELSE IF Port(u) # <<>> THEN JoinHostPort(Hostname(u), Port(u))
    ELSE SprintfHostPort(Hostname(u), port)

\* The name crypto/tls puts in the handshake: the configured one, and with
\* none configured the host part of the dialed address (tls.DialWithDialer).
HandshakeServerName(config, addr) ==
    IF config.ServerName # <<>> THEN config.ServerName
    ELSE SubSeq(addr, 1, LastIndexOf(addr, ":") - 1)

\* net.Dial splits the address at its last colon and refuses one whose host
\* part holds a colon outside brackets ("too many colons in address").
DialableAddr(addr) ==
    LET k == LastIndexOf(addr, ":")
        host == SubSeq(addr, 1, k - 1)
    IN  /\ k > 0
        /\ \/ IndexOf(host, ":") = 0
           \/ Len(host) >= 2 /\ host[1] = "[" /\ host[Len(host)] = "]"

\* The dial, as it is logged.
EvDial(addr, config, sni) == [ev |-> "dial", addr |-> addr, config |-> config, sni |-> sni]

\* The Certificate value built around a peer certificate at clock t.
RemoteCertificate(c, source, t) ==
    [ok |-> TRUE, Certificate |-> c, Source |-> source, Format |-> FormatDER,
     IsExpired |-> c.notAfter < t,
     DaysUntilExpiry |-> TruncDiv(c.notAfter - t, HoursPerDay)]

\* fmt.Sprintf("Chain[%d]", i)
ChainLabel(i) == <<"C", "h", "a", "i", "n", "[">> \o Itoa(i) \o <<"]">>

\* A variant that labels the chain from 0.
ChainFromZero(certs, t) ==
    [k \in 1..(Len(certs) - 1) |-> RemoteCertificate(certs[k + 1], ChainLabel(k - 1), t)]

\* The loop over the peer certificates after the first (i is the 0-based
\* index of the code, certs[k + 1] its certs[i]).
ChainOf(certs, t) ==
    [k \in 1..(Len(certs) - 1) |-> RemoteCertificate(certs[k + 1], ChainLabel(k), t)]

\* InspectURLWithOptions at clock t against a network env (whether the dial
\* and handshake succeed, and the peer certificates): the leaf, the chain,
\* the error and the log of the dial. The timeout bounds the dial only; a
\* dial that times out is one that fails.
InspectURLWithOptions(targetURL, port, connectHost, sigAlg, t, env) ==
    LET target == IF ~Contains(targetURL, SchemeSep)
                  THEN HTTPS \o SchemeSep \o targetURL ELSE targetURL
        u == URLParse(target)
    IN  IF ~u.ok THEN [leaf |-> Nil, chain |-> <<>>, err |-> "invalid URL", log |-> <<>>]
        ELSE
        LET serverName == ServerNameOf(u, connectHost)
            dialHost == DialHost(u, port, connectHost)
            tlsConfig == TLSConfig(serverName, sigAlg)
            lg == <<EvDial(dialHost, tlsConfig, HandshakeServerName(tlsConfig, dialHost))>>
            certs == env.peers
        IN  IF ~env.dialOK \/ ~DialableAddr(dialHost)
            THEN [leaf |-> Nil, chain |-> <<>>, err |-> "failed to connect", log |-> lg]
            ELSE IF Len(certs) = 0
            THEN [leaf |-> Nil, chain |-> <<>>, err |-> "no certificates found", log |-> lg]
            ELSE [leaf |-> RemoteCertificate(certs[1], URLString(u), t),
                  chain |-> ChainOf(certs, t), err |-> "", log |-> lg]

\* ------------------------------------- specification: remote inspection

TargetHost == <<"a", ".", "c", "o">>
TargetBare == TargetHost
TargetHostPort == TargetHost \o <<":", "8", "4", "4", "3">>
TargetURL == HTTPS \o SchemeSep \o TargetHost \o <<"/", "x">>
TargetURLPort == HTTPS \o SchemeSep \o TargetHost \o <<":", "8", "4", "4", "3">>
TargetBadPort == TargetHost \o <<":", "x">>
TargetNoHost == HTTPS \o SchemeSep \o <<"/", "x">>
Targets == {TargetBare, TargetHostPort, TargetURL, TargetURLPort, TargetBadPort, TargetNoHost}

PortArgs == {443, 9443}
ConnectHosts == {<<>>, <<"1", "0", ".", "0", ".", "0", ".", "1">>}
SigAlgs == {SigAuto, SigECDSA, SigRSA, <<"E", "C", "D", "S", "A">>, <<>>}

\* Longest peer-certificate list a server presents.
MaxPeers == 3

PeerCerts == {CertExpired, CertCA}

\* What the network does to a call: the dial or handshake fails, or the
\* server presents its certificates.
NetEnvs ==
    {[dialOK |-> FALSE, peers |-> <<>>]}
    \cup {[dialOK |-> TRUE, peers |-> p] : p \in BoundedSeq(PeerCerts, MaxPeers)}

RemoteLeafFiles == {NoFile, File(PemCert(CertValid)), File(<<Der(CertExpired)>>)}

InitRemote ==
    /\ \E leaf \in RemoteLeafFiles : fs = [EmptyFS EXCEPT !["leaf.crt"] = leaf]
    /\ now = 0
    /\ log = <<>>
    /\ call = NoCall
    /\ ret = NoCall

\* A call of InspectURLWithOptions.
CallInspectURL ==
    \E target \in Targets, port \in PortArgs, connectHost \in ConnectHosts,
       sigAlg \in SigAlgs, env \in NetEnvs :
        /\ Idle
        /\ call' = [op |-> "InspectURL", targetURL |-> target, port |-> port,
                    connectHost |-> connectHost, sigAlg |-> sigAlg, now |-> now,
                    env |-> env]
        /\ ret' = [op |-> "InspectURL",
                   out |-> InspectURLWithOptions(target, port, connectHost, sigAlg, now, env)]
        /\ log' = ret'.out.log
        /\ UNCHANGED <<fs, now>>

NextRemote == Tick \/ CallInspectFile \/ CallInspectURL \/ Return

SpecRemote == InitRemote /\ [][NextRemote]_vars

\* ------------------------------------------------- the inspect command

RECURSIVE SplitColons(_)
\* strings.Split(s, ":")
SplitColons(s) ==
    LET d == IndexOf(s, ":")
    IN  IF d = 0 THEN <<s>> ELSE <<SubSeq(s, 1, d - 1)>> \o SplitColons(SliceFrom(s, d))

IsDigit(c) == \E d \in 1..10 : Digits[d] = c
DigitValue(c) == (CHOOSE d \in 1..10 : Digits[d] = c) - 1

RECURSIVE DecimalValue(_)
DecimalValue(s) ==
    IF s = <<>> THEN 0 ELSE 10 * DecimalValue(SubSeq(s, 1, Len(s) - 1)) + DigitValue(s[Len(s)])

\* strconv.Atoi on text without a sign: a non-empty run of digits.
Atoi(s) ==
    IF s # <<>> /\ \A i \in 1..Len(s) : IsDigit(s[i]) THEN [ok |-> TRUE, n |-> DecimalValue(s)]
    ELSE Nil

\* The idiom inspectCmd uses on the target and on --connect: split at the
\* colons, and with exactly two parts of which the second is a number, take
\* the first as the host and the second as the port.
SplitHostPort(s, port) ==
    LET parts == SplitColons(s)
    IN  IF Len(parts) = 2 /\ Atoi(parts[2]).ok
        THEN [host |-> parts[1], port |-> Atoi(parts[2]).n]
        ELSE [host |-> s, port |-> port]

HTTP == <<"h", "t", "t", "p">>

\* The URL branch of inspectCmd at clock t: the target, port and connect
\* host it settles on and what InspectURLWithOptions returns for them.
inspectCmd(target, inspectPort, inspectConnect, sigAlg, t, env) ==
    LET tp == IF Contains(target, <<":">>) /\ ~HasPrefix(target, HTTP)
              THEN SplitHostPort(target, inspectPort)
              ELSE [host |-> target, port |-> inspectPort]
        cp == IF inspectConnect # <<>> THEN SplitHostPort(inspectConnect, tp.port)
              ELSE [host |-> <<>>, port |-> tp.port]
    IN  [target |-> tp.host, port |-> cp.port, connectHost |-> cp.host,
         out |-> InspectURLWithOptions(tp.host, cp.port, cp.host, sigAlg, t, env)]

\* ------------------------------------- specification: the inspect command

CmdTargets == {TargetBare, TargetHostPort, TargetURL, TargetURLPort, TargetBadPort}

\* Values of --connect: none, a host, host:port, an IPv6 literal with a
\* port, and a host with text that is no port.
ConnectFlags ==
    {<<>>, <<"1", "0", ".", "0", ".", "0", ".", "1">>,
     <<"b", ".", "c", "o", ":", "8", "0", "8", "0">>,
     <<"[", ":", ":", "1", "]", ":", "8", "0", "8", "0">>,
     <<"b", ".", "c", "o", ":", "x">>}

\* A run of `inspect` on a target that names no file.
CmdInspect ==
    \E target \in CmdTargets, port \in PortArgs, connect \in ConnectFlags, env \in NetEnvs :
        /\ Idle
        /\ Len(env.peers) <= 1
        /\ call' = [op |-> "inspect", target |-> target, port |-> port, connect |-> connect,
                    now |-> now, env |-> env]
        /\ ret' = [op |-> "inspect", out |-> inspectCmd(target, port, connect, SigAuto, now, env)]
        /\ log' = ret'.out.out.log
        /\ UNCHANGED <<fs, now>>

NextInspectCmd == CallInspectURL \/ CmdInspect \/ Return

SpecInspectCmd == InitRemote /\ [][NextInspectCmd]_vars

\* ------------------------------------------------------ TLS version prober

\* tls.VersionTLS10, tls.VersionTLS11 and tls.VersionTLS13
VersionTLS10 == 769
VersionTLS11 == 770
VersionTLS13 == 772

\* The versions CheckTLSVersions tests, in the order of its slice.
ProbeVersions == <<VersionTLS10, VersionTLS11, VersionTLS12, VersionTLS13>>

tlsVersionNames(v) ==
    CASE v = VersionTLS10 -> "TLS 1.0"
      [] v = VersionTLS11 -> "TLS 1.1"
      [] v = VersionTLS12 -> "TLS 1.2"
      [] v = VersionTLS13 -> "TLS 1.3"
      [] OTHER -> ""

\* A nil error of tls.DialWithDialer; any other outcome is the error's text.
NoError == ""

\* What one dial of the prober can end in: a handshake, or an error (the
\* port is closed, the dial timed out, the server refuses the version).
DialOutcomes == {NoError, "connection refused", "i/o timeout", "protocol version not supported"}

\* The tls.Config of one attempt.
ProbeConfig(host, version) ==
    [InsecureSkipVerify |-> TRUE, ServerName |-> host,
     MinVersion |-> version, MaxVersion |-> version]

\* One attempt of the prober, as it is logged.
EvHandshake(addr, config, err) == [ev |-> "handshake", addr |-> addr, config |-> config, err |-> err]

\* The TLSVersionInfo of an attempt that ended in err.
VersionInfo(version, err) ==
    [Version |-> version, Name |-> tlsVersionNames(version),
     Supported |-> err = NoError, Error |-> err]

\* A variant that takes the first supported version only when it is below
\* the zero value.
TrackMinBelowOnly(minSupported, info) ==
    IF info.Supported /\ info.Version < minSupported THEN info.Version ELSE minSupported

\* if info.Supported { if minSupported == 0 || version < minSupported {...} }
TrackMin(minSupported, info) ==
    IF info.Supported /\ (minSupported = 0 \/ info.Version < minSupported)
    THEN info.Version ELSE minSupported

\* if info.Supported { if version > maxSupported {...} }
TrackMax(maxSupported, info) ==
    IF info.Supported /\ info.Version > maxSupported THEN info.Version ELSE maxSupported

\* A variant of the loop that stops at the first failed attempt.
NextAttemptStopOnError(i, info) == IF info.Supported THEN i + 1 ELSE Len(ProbeVersions) + 1

\* The range loop goes on to the next version whatever the attempt gave.
NextAttempt(i, info) == i + 1

\* CheckTLSVersions up to its loop: the empty result, the dial address, the
\* two trackers at their zero values, and the index of the next version.
ProbeStart(host, port) ==
    [op |-> "CheckTLSVersions", host |-> host, port |-> port,
     dialHost |-> SprintfHostPort(host, port), i |-> 1, Versions |-> <<>>,
     minSupported |-> 0, maxSupported |-> 0]

\* One iteration of the loop, its dial ending in err.
ProbeStep(st, err) ==
    LET info == VersionInfo(ProbeVersions[st.i], err)
    IN  [st EXCEPT !.Versions = Append(@, info),
                   !.minSupported = TrackMin(@, info),
                   !.maxSupported = TrackMax(@, info),
                   !.i = NextAttempt(@, info)]

\* The return of CheckTLSVersions after the loop.
ProbeResult(st) ==
    [result |-> [Host |-> st.host, Port |-> st.port, Versions |-> st.Versions,
                 MinSupported |-> st.minSupported, MaxSupported |-> st.maxSupported],
     err |-> NoError]

\* ------------------------------------- specification: TLS version prober

ProbeHosts == {TargetHost, <<"1", "0", ".", "0", ".", "0", ".", "1">>}

InitProbe ==
    /\ fs = EmptyFS
    /\ now = 0
    /\ log = <<>>
    /\ call = NoCall
    /\ ret = NoCall

\* A call of CheckTLSVersions enters its loop.
CallCheckTLSVersions ==
    \E host \in ProbeHosts, port \in PortArgs :
        /\ Idle
        /\ call.op = "none"
        /\ call' = ProbeStart(host, port)
        /\ log' = <<>>
        /\ UNCHANGED <<fs, now, ret>>

\* One iteration of the loop: the dial and what it ends in.
AttemptVersion ==
    \E err \in DialOutcomes :
        /\ Idle
        /\ call.op = "CheckTLSVersions"
        /\ call.i <= Len(ProbeVersions)
        /\ call' = ProbeStep(call, err)
        /\ log' = Append(log, EvHandshake(call.dialHost,
                                          ProbeConfig(call.host, ProbeVersions[call.i]), err))
        /\ UNCHANGED <<fs, now, ret>>

\* The loop is over: CheckTLSVersions returns.
FinishCheckTLSVersions ==
    /\ Idle
    /\ call.op = "CheckTLSVersions"
    /\ call.i > Len(ProbeVersions)
    /\ ret' = [op |-> "CheckTLSVersions", out |-> ProbeResult(call)]
    /\ UNCHANGED <<fs, now, call, log>>

NextProbe == CallCheckTLSVersions \/ AttemptVersion \/ FinishCheckTLSVersions \/ Return

SpecProbe == InitProbe /\ [][NextProbe]_vars

\* --------------------------------------------------------------- ParseCSR

\* net.IP.String: dotted decimal for an IPv4 address, and for the IPv6
\* loopback its shortest form.
IPString(ip) ==
    IF Len(ip) = 4
    THEN Itoa(ip[1]) \o <<".">> \o Itoa(ip[2]) \o <<".">> \o Itoa(ip[3]) \o <<".">> \o Itoa(ip[4])
    ELSE <<":", ":", "1">>

\* A variant that writes the IP tag in lower case.
FlatSANsLowerTag(csr) ==
    csr.dns
    \o [i \in 1..Len(csr.ips) |-> <<"i", "p", ":">> \o IPString(csr.ips[i])]
    \o [i \in 1..Len(csr.emails) |-> TagEmail \o csr.emails[i]]

\* The flat SAN list of ParseCSR: the DNS names as they are, then "IP:" and
\* each address, then "email:" and each address.
FlatSANs(csr) ==
    csr.dns
    \o [i \in 1..Len(csr.ips) |-> TagIP \o IPString(csr.ips[i])]
    \o [i \in 1..Len(csr.emails) |-> TagEmail \o csr.emails[i]]

\* ParseCSR: the *CSRInfo and the error.
ParseCSR(data) ==
    LET block == PemDecode(data)
    IN  IF ~block.ok THEN [info |-> Nil, err |-> "failed to parse PEM block"]
        ELSE
        LET csr == X509ParseCertificateRequest(block.Bytes)
        IN  IF ~csr.ok THEN [info |-> Nil, err |-> "failed to parse CSR"]
            ELSE [info |-> [ok |-> TRUE, Subject |-> csr.csr.subject,
                            SANs |-> FlatSANs(csr.csr)],
                  err |-> ""]

\* ------------------------------------------------ specification: ParseCSR

\* Most SANs of one kind in a request handed to ParseCSR.
MaxCsrSANs == 2

\* DNS names a request may carry: any IA5 text, whoever wrote the request.
\* The csr command itself writes "ip:10.0.0.1" as a DNS name.
CsrDNSNames == {SanDNS, SanWildcard, SanIPLower, SanIP, SanIPBad, SanEmail,
                <<"U", "R", "I", ":", "x">>}
CsrIPs == {<<10, 0, 0, 1>>, <<0, 0, 0, 0, 0, 0, 0, 1>>}
CsrEmails == {<<"a", "@", "b">>, <<":", "a", "@", "b">>}

CsrData ==
    {PemCSR(CSR("req", [dns |-> d, ips |-> i, emails |-> e, uris |-> <<>>], "kReq", TRUE)) :
        d \in BoundedSeq(CsrDNSNames, MaxCsrSANs), i \in BoundedSeq(CsrIPs, MaxCsrSANs),
        e \in BoundedSeq(CsrEmails, MaxCsrSANs)}
    \cup {<<Text>>, PemEncode("CERTIFICATE REQUEST", Junk), <<Der(CsrNoSANs)>>}

InitCSR ==
    /\ fs = EmptyFS
    /\ now = 0
    /\ log = <<>>
    /\ \E d \in CsrData : call = [op |-> "ParseCSR", data |-> d]
    /\ ret = NoCall

\* A call of ParseCSR on the drawn data.
CallParseCSR ==
    /\ call.op = "ParseCSR"
    /\ ret.op = "none"
    /\ ret' = [op |-> "ParseCSR", out |-> ParseCSR(call.data)]
    /\ UNCHANGED <<fs, now, call, log>>

NextCSR == CallParseCSR

SpecCSR == InitCSR /\ [][NextCSR]_vars

\* --------------------------------------------- specification: SAN classifier

InitSAN ==
    /\ fs = EmptyFS
    /\ now = 0
    /\ log = <<>>
    /\ \E s \in BoundedSeq(SANEntries, MaxSANs) : call = [op |-> "splitSANs", sans |-> s]
    /\ ret = NoCall

\* A call of splitSANs on the drawn list.
CallSplitSANs ==
    /\ call.op = "splitSANs"
    /\ ret.op = "none"
    /\ ret' = [op |-> "splitSANs", out |-> splitSANs(call.sans)]
    /\ UNCHANGED <<fs, now, call, log>>

NextSAN == CallSplitSANs

SpecSAN == InitSAN /\ [][NextSAN]_vars

\* ------------------------------------------------ claims: SAN classifier

\* strings.EqualFold on ASCII text: equal up to the case of ASCII letters.
EqualFold(s, t) ==
    Len(s) = Len(t) /\ \A i \in 1..Len(s) : ToLowerChar(s[i]) = ToLowerChar(t[i])

\* The entry carries the tag IP: (as written), email: or uri: (in any case).
CarriesIPTag(e) == Len(e) >= 3 /\ SubSeq(e, 1, 3) = <<"I", "P", ":">>
CarriesEmailTag(e) == Len(e) >= 6 /\ EqualFold(SubSeq(e, 1, 6), <<"e", "m", "a", "i", "l", ":">>)
CarriesURITag(e) == Len(e) >= 4 /\ EqualFold(SubSeq(e, 1, 4), <<"u", "r", "i", ":">>)
Untagged(e) == ~CarriesIPTag(e) /\ ~CarriesEmailTag(e) /\ ~CarriesURITag(e)

\* An address with a local part and a domain around one "@".
LooksLikeEmail(s) == IndexOf(s, "@") > 1 /\ IndexOf(s, "@") < Len(s)

WellFormedIP(e) == CarriesIPTag(e) /\ ParseIP(SliceFrom(e, 3)).ok
WellFormedURI(e) == CarriesURITag(e) /\ ParseURL(SliceFrom(e, 4)).ok

\* A tagged entry whose remainder does not parse as the tag's type.
MalformedTyped(e) ==
    \/ CarriesIPTag(e) /\ ~ParseIP(SliceFrom(e, 3)).ok
    \/ CarriesEmailTag(e) /\ ~LooksLikeEmail(SliceFrom(e, 6))
    \/ CarriesURITag(e) /\ ~ParseURL(SliceFrom(e, 4)).ok

\* The same, for the two tags whose remainder splitSANs parses.
MalformedIPOrURI(e) ==
    \/ CarriesIPTag(e) /\ ~ParseIP(SliceFrom(e, 3)).ok
    \/ CarriesURITag(e) /\ ~ParseURL(SliceFrom(e, 4)).ok

RemoveAt(s, i) == SubSeq(s, 1, i - 1) \o SubSeq(s, i + 1, Len(s))

\* The entries at the positions where Bad holds are dropped from all four
\* lists: none of them is a DNS name of the output, and the output is that of
\* the list without them.
DroppedWhere(Bad(_)) ==
    ret.op = "splitSANs" =>
        /\ \A j \in 1..Len(ret.out.dns) : ~Bad(ret.out.dns[j])
        /\ \A i \in 1..Len(call.sans) :
               Bad(call.sans[i]) => splitSANs(RemoveAt(call.sans, i)) = ret.out

\* C5, as claimed: a tagged entry (IP:, email:, uri:) whose remainder does not
\* parse as that type is dropped from all four output lists.
C5_AsClaimed == DroppedWhere(MalformedTyped)

\* C5, amended, first half: an entry tagged IP: or uri: whose remainder does
\* not parse is dropped from all four output lists and never becomes a DNS
\* name.
C5_MalformedIPOrURIDropped == DroppedWhere(MalformedIPOrURI)

\* C5, amended, second half: the remainder of an email: entry is not parsed;
\* whatever it is, the entry adds it, the tag stripped, to the email list.
C5_EmailNeverParsed ==
    ret.op = "splitSANs" =>
        \A i \in 1..Len(call.sans) :
            CarriesEmailTag(call.sans[i]) =>
                /\ splitSANs(<<call.sans[i]>>) =
                       [EmptySplit EXCEPT !.emails = <<SliceFrom(call.sans[i], 6)>>]
                /\ Len(ret.out.emails) = Len(splitSANs(RemoveAt(call.sans, i)).emails) + 1

\* C5, amended: malformed IP: and uri: entries are dropped from all four
\* output lists without falling back to the DNS list, and email: entries are
\* kept whatever their remainder, because splitSANs never parses it.
C5_Amended == C5_MalformedIPOrURIDropped /\ C5_EmailNeverParsed

C5_Witness ==
    /\ ret.op = "splitSANs"
    /\ call.sans = <<SanIPBad, SanEmailBad, SanURIBad>>
    /\ ret.out = [dns |-> <<>>, ips |-> <<>>, emails |-> << <<"z", "z">> >>, uris |-> <<>>]

\* The reference classifier: each list is a filter of the input, in input
\* order, followed by the conversion of each kept entry.
RefDNS(sans) == SelectSeq(sans, Untagged)
RefIPs(sans) ==
    LET t == SelectSeq(sans, WellFormedIP)
    IN  [i \in 1..Len(t) |-> ParseIP(SliceFrom(t[i], 3)).ip]
RefEmails(sans) ==
    LET t == SelectSeq(sans, CarriesEmailTag)
    IN  [i \in 1..Len(t) |-> SliceFrom(t[i], 6)]
RefURIs(sans) ==
    LET t == SelectSeq(sans, WellFormedURI)
    IN  [i \in 1..Len(t) |-> LET u == ParseURL(SliceFrom(t[i], 4))
                             IN  [scheme |-> u.scheme, rest |-> u.rest]]

\* C6, as claimed: splitSANs equals the reference classifier on every input
\* list: an entry tagged IP: (as written) goes to the IP list, one tagged
\* email: or uri: (in any case) to the email or URI list with the tag stripped,
\* and every other entry, wildcards and lower-case ip: included, unchanged to
\* the DNS list, each list in input order.
C6_EqualsReference ==
    ret.op = "splitSANs" =>
        /\ ret.out.dns = RefDNS(call.sans)
        /\ ret.out.ips = RefIPs(call.sans)
        /\ ret.out.emails = RefEmails(call.sans)
        /\ ret.out.uris = RefURIs(call.sans)

\* ------------------------------------------------------- claims: reading

Range(q) == {q[i] : i \in 1..Len(q)}

\* The certificate of the first PEM block, or of the raw buffer read as DER.
BlockIsCert(data) == PemDecode(data).ok /\ PemDecode(data).Bytes.kind = "cert"
RawIsCert(data) == RawBytes(data).kind = "cert"

\* C7: parseCertificate tries PEM before DER: when a PEM block is found the
\* outcome is the block's certificate tagged PEM or a failure and the raw
\* buffer is never handed to the DER parser; the tag DER comes only with no
\* PEM block and raw bytes that parse as a certificate.
C7_PEMBeforeDER ==
    ret.op = "parseCertificate" =>
        LET o == ret.out
            block == PemDecode(call.data)
        IN  /\ block.ok =>
                /\ "raw" \notin Range(o.parsed)
                /\ o.format # FormatDER
                /\ \/ o.err /\ ~o.cert.ok
                   \/ ~o.err /\ o.cert.ok /\ o.format = FormatPEM /\ o.cert.cert = block.Bytes
            /\ o.format = FormatDER =>
                /\ ~block.ok /\ RawIsCert(call.data)
                /\ ~o.err /\ o.cert.ok /\ o.cert.cert = RawBytes(call.data)
            /\ ~o.err => o.cert.ok /\ o.format \in {FormatPEM, FormatDER}

C7_Witness ==
    /\ ret.op = "parseCertificate"
    /\ call.data = <<Text>> \o PemCert(CertValid)
    /\ ~ret.out.err /\ ret.out.format = FormatPEM /\ ret.out.cert.cert = CertValid
    /\ ret.out.parsed = <<"block">>

\* C8, as claimed: a buffer that is neither a PEM certificate nor a DER
\* certificate gives a failure with no certificate and an empty format tag, and
\* InspectFile on such a file, or on a missing one, gives an error and no
\* Certificate value.
C8_AsClaimed ==
    /\ ret.op = "parseCertificate" /\ ~BlockIsCert(call.data) /\ ~RawIsCert(call.data) =>
          ret.out.err /\ ~ret.out.cert.ok /\ ret.out.format = ""
    /\ ret.op = "InspectFile"
         /\ (fs[call.path].exists =>
                ~BlockIsCert(fs[call.path].data) /\ ~RawIsCert(fs[call.path].data)) =>
          ret.out.err # "" /\ ~ret.out.val.ok

\* The expected errors of a Verify that returns a result, in the order of the
\* checks; "both" selects whether the expired condition is evaluated after a
\* not-yet-valid one.
ExpectedErrors(both) ==
    LET cert == parseCertificate(fs[call.certPath].data).cert.cert
        t == call.now
        notYet == cert.notBefore > t
        expired == cert.notAfter < t /\ (both \/ ~notYet)
        host == call.hostname # <<>> /\ ~VerifyHostname(cert, call.hostname)
        chain == call.caPath # ""
                 /\ ~CertVerify(cert, LoadRoots(fs[call.caPath].data).roots, call.hostname, t)
    IN  (IF notYet THEN <<ErrNotYetValid>> ELSE <<>>)
        \o (IF expired THEN <<ErrExpired>> ELSE <<>>)
        \o (IF host THEN <<ErrHostname>> ELSE <<>>)
        \o (IF chain THEN <<ErrChain>> ELSE <<>>)

VerifyReturned == ret.op = "Verify" /\ ret.out.err = "" /\ ret.out.result.ok

\* C9, as claimed: every applicable check (not yet valid, expired, hostname,
\* chain) is evaluated whatever the others gave and appends its own error
\* when it fails, both date conditions included.
C9_AsClaimed == VerifyReturned => ret.out.result.Errors = ExpectedErrors(TRUE)

\* C9, amended: the date check is one two-way test (expired is evaluated only
\* when the certificate is not "not yet valid"); the date, hostname and chain
\* checks do not short-circuit one another, each appending its own error
\* exactly when it fails.
C9_ChecksIndependent == VerifyReturned => ret.out.result.Errors = ExpectedErrors(FALSE)

C9_Witness ==
    /\ VerifyReturned
    /\ fs[call.certPath] = File(PemCert(CertInverted))
    /\ call.hostname = HostOther /\ call.caPath = "ca.crt"
    /\ ret.out.result.Errors = <<ErrNotYetValid, ErrHostname, ErrChain>>

\* C10: Verify on a certificate within its validity window, with a hostname
\* that does not match and an empty CA path, returns a result with IsValid
\* false and exactly one error, the hostname failure.
C10_HostnameOnly ==
    ret.op = "Verify" /\ call.caPath = "" /\ call.hostname # <<>>
        /\ fs[call.certPath].exists /\ ~parseCertificate(fs[call.certPath].data).err =>
        LET cert == parseCertificate(fs[call.certPath].data).cert.cert
        IN  cert.notBefore <= call.now /\ call.now <= cert.notAfter
                /\ ~VerifyHostname(cert, call.hostname) =>
                /\ ret.out.err = "" /\ ret.out.result.ok
                /\ ret.out.result.IsValid = FALSE
                /\ ret.out.result.Errors = <<ErrHostname>>

C10_Witness ==
    /\ ret.op = "Verify" /\ call.caPath = "" /\ call.hostname = HostOther
    /\ fs[call.certPath] = File(PemCert(CertValid))
    /\ ret.out.err = "" /\ ~ret.out.result.IsValid
    /\ ret.out.result.Errors = <<ErrHostname>>

\* The CA file of the last Verify holds at least one certificate, as a PEM
\* bundle or as one DER certificate.
CAFileUsable ==
    /\ fs[call.caPath].exists
    /\ \/ \E i \in BlockStarts(fs[call.caPath].data) :
              /\ fs[call.caPath].data[i].type = "CERTIFICATE"
              /\ fs[call.caPath].data[i + 1].bytes.kind = "cert"
       \/ RawIsCert(fs[call.caPath].data)

\* The certificate file of the last Verify is readable and parses.
CertFileUsable ==
    /\ fs[call.certPath].exists
    /\ BlockIsCert(fs[call.certPath].data)
         \/ (~PemDecode(fs[call.certPath].data).ok /\ RawIsCert(fs[call.certPath].data))

\* C11: Verify separates abort from reported failure. With a usable
\* certificate file, a CA file that cannot be read or that holds neither a PEM
\* bundle nor one DER certificate gives an error and no result; otherwise the
\* call gives a result and no error, and a date, hostname or chain check that
\* fails is reported in it with IsValid false.
C11_AbortVersusReport ==
    ret.op = "Verify" /\ CertFileUsable =>
        IF call.caPath # "" /\ ~CAFileUsable
        THEN ret.out.err # "" /\ ~ret.out.result.ok
        ELSE /\ ret.out.err = "" /\ ret.out.result.ok
             /\ ret.out.result.IsValid = (ExpectedErrors(FALSE) = <<>>)
             /\ ret.out.result.Errors = ExpectedErrors(FALSE)

\* An abort, on a CA file of plain text, although the certificate has expired.
C11_Witness ==
    /\ ret.op = "Verify" /\ call.caPath = "ca.crt" /\ call.certPath = "leaf.crt"
    /\ fs["leaf.crt"] = File(PemCert(CertExpired))
    /\ fs["ca.crt"] = File(<<Text>>)
    /\ ret.out.err = "failed to parse CA certificate(s)" /\ ~ret.out.result.ok

\* ------------------------------------------------------- claims: signing

\* The request, the CA certificate and the leaf of the last SignCSR run: what
\* the files held when it was called, and what the output path holds now.
SignedCSR == PemDecode(call.pre[call.options.CSRPath].data).Bytes
SignedBy == PemDecode(call.pre[call.options.CACert].data).Bytes
IssuedLeaf == PemDecode(fs[call.certPath].data).Bytes

\* The request file parses and its self-signature does not verify.
SignatureCheckFails ==
    /\ call.pre[call.options.CSRPath].exists
    /\ PemDecode(call.pre[call.options.CSRPath].data).ok
    /\ SignedCSR.kind = "csr"
    /\ ~SignedCSR.sigOK

SignSucceeded ==
    /\ ret.op = "SignCSR" /\ ret.err = ""
    /\ fs[call.certPath].exists
    /\ PemDecode(fs[call.certPath].data).ok
    /\ PemDecode(fs[call.certPath].data).Type = "CERTIFICATE"
    /\ IssuedLeaf.kind = "cert"

\* C1: when the CSR's self-signature check fails, SignCSR aborts with the
\* signature error at that step, having read only the CSR file (neither the CA
\* certificate nor the CA key), and nothing is created or written.
C1_ForgedCSRNeverSigned ==
    ret.op = "SignCSR" /\ SignatureCheckFails =>
        /\ ret.err = ErrCSRSignature
        /\ log = <<EvRead(call.options.CSRPath)>>
        /\ fs = call.pre

C1_Witness ==
    /\ ret.op = "SignCSR" /\ SignatureCheckFails
    /\ call.pre["ca.crt"] = File(PemCert(CertCA))
    /\ call.pre["ca.key"] = File(PemKey("pkcs8", "kCA"))
    /\ ~call.pre["leaf.crt"].exists
    /\ ret.err = ErrCSRSignature /\ ~fs["leaf.crt"].exists

\* C2, as claimed: whenever SignCSR returns an error, whichever step failed,
\* the output path holds what it held before the call: no file was created
\* empty, truncated or partly written.
C2_AsClaimed ==
    ret.op = "SignCSR" /\ ret.err # "" => fs[call.certPath] = call.pre[call.certPath]

\* C3: with a non-empty override list the leaf's SANs are exactly the
\* classification of the override, and no SAN of the request that the
\* override does not itself name appears in the leaf.
C3_OverrideReplaces ==
    SignSucceeded /\ Len(call.options.SANs) > 0 =>
        /\ IssuedLeaf.dns = RefDNS(call.options.SANs)
        /\ IssuedLeaf.ips = RefIPs(call.options.SANs)
        /\ IssuedLeaf.emails = RefEmails(call.options.SANs)
        /\ IssuedLeaf.uris = RefURIs(call.options.SANs)
        /\ \A d \in Range(SignedCSR.dns) : d \in Range(IssuedLeaf.dns) => d \in Range(call.options.SANs)
        /\ \A a \in Range(SignedCSR.ips) :
               a \in Range(IssuedLeaf.ips) => a \in Range(RefIPs(call.options.SANs))
        /\ \A m \in Range(SignedCSR.emails) :
               m \in Range(IssuedLeaf.emails) => m \in Range(RefEmails(call.options.SANs))

C3_Witness ==
    /\ SignSucceeded
    /\ SignedCSR = CsrWithSANs
    /\ call.options.SANs = <<SanOverride, SanIP>>
    /\ IssuedLeaf.dns = <<SanOverride>>
    /\ IssuedLeaf.ips = << <<10, 0, 0, 1>> >>
    /\ IssuedLeaf.emails = <<>>

\* C4: with an empty override list a successful SignCSR issues a leaf whose
\* subject is the request's, whose issuer is the CA certificate's subject,
\* which is no CA, and whose DNS, IP, email and URI lists are the request's.
C4_LeafFromCSR ==
    SignSucceeded /\ call.options.SANs = <<>> =>
        /\ IssuedLeaf.subject = SignedCSR.subject
        /\ IssuedLeaf.issuer = SignedBy.subject
        /\ IssuedLeaf.isCA = FALSE
        /\ IssuedLeaf.dns = SignedCSR.dns
        /\ IssuedLeaf.ips = SignedCSR.ips
        /\ IssuedLeaf.emails = SignedCSR.emails
        /\ IssuedLeaf.uris = SignedCSR.uris

C4_Witness ==
    /\ SignSucceeded
    /\ call.options.SANs = <<>>
    /\ SignedCSR = CsrWithSANs
    /\ IssuedLeaf.issuer = "Test CA" /\ ~IssuedLeaf.isCA
    /\ Len(IssuedLeaf.dns) = 2

\* A file that holds one certificate, PEM-armored or as raw DER.
HoldsCertificate(file) ==
    file.exists /\ (BlockIsCert(file.data) \/ RawIsCert(file.data))

\* C17, as claimed: an operation that reads a certificate file accepts it in
\* PEM and in raw DER alike: InspectFile returns the certificate, and SignCSR
\* does not fail on its CA certificate.
C17_AsClaimed ==
    /\ ret.op = "InspectFile" /\ HoldsCertificate(fs[call.path]) => ret.out.err = ""
    /\ ret.op = "SignCSR" /\ HoldsCertificate(call.pre[call.options.CACert]) =>
          ret.err \notin {ErrCARead, ErrCABlock, ErrCAParse}

\* ----------------------------------------------------- claims: generators

\* The last command ran to the end without an error.
CommandSucceeded == ret.op \in {"generate", "ca", "csr"} /\ ret.out.err = ""

\* C13, as claimed: a certificate produced by Generate with days = N, for
\* every N that Generate accepts, N = 0 included, and inspected right after it
\* has isExpired = false and daysUntilExpiry in [N-1, N].
C13_AsClaimed ==
    ret.op = "generate" /\ ret.out.err = "" /\ ret.out.inspected.err = "" =>
        /\ ~ret.out.inspected.val.IsExpired
        /\ ret.out.inspected.val.DaysUntilExpiry \in {call.days - 1, call.days}

\* The events of the last run on its private-key file.
KeyEvents == SelectSeq(log, LAMBDA e : e.path = ret.out.keyPath)

\* C14, as claimed: in Generate and GenerateCA on a POSIX-like system the key
\* file never holds key bytes under a mode other than 0600, and on successful
\* return its mode is 0600.
C14_AsClaimed ==
    ret.op \in {"generate", "ca"} /\ call.env.goos # "windows" =>
        /\ \A i \in 1..Len(KeyEvents) : KeyEvents[i].chunks > 0 => KeyEvents[i].mode = Mode0600
        /\ ret.out.err = "" => fs[ret.out.keyPath].mode = Mode0600

\* The paths the last command created or changed, the output directory aside.
Touched == {p \in DOMAIN fs : fs[p] # call.pre[p] /\ p # call.output}

\* C15, as claimed: the files Generate, the ca command and the csr command
\* write are named from the sanitized common name: no name holds one of the
\* problematic characters, and every file lies directly in the output
\* directory.
C15_AsClaimed ==
    CommandSucceeded =>
        \A p \in Touched :
            /\ Dir(p) = call.output
            /\ \A i \in 1..Len(p[Len(p)]) : p[Len(p)][i] \notin Problematic

\* C16, as claimed: a generator whose output directory does not exist creates
\* it and goes on, instead of failing at the creation of its first file.
C16_AsClaimed ==
    ret.op \in {"generate", "ca", "csr"} /\ call.env.fault = NoFault /\ call.cn = CNPlain
        /\ ~IsDir(call.pre, call.output) =>
        ret.out.err = "" /\ IsDir(fs, call.output)

\* ---------------------------------------------- claims: remote inspection

\* The Certificate values the last call built, each with the clock it was
\* built at.
BuiltCertificates ==
    IF ret.op = "InspectFile" /\ ret.out.val.ok THEN {ret.out.val}
    ELSE IF ret.op = "InspectURL" /\ ret.out.leaf.ok THEN {ret.out.leaf} \cup Range(ret.out.chain)
    ELSE {}

\* C12, as claimed: every Certificate value built by InspectFile or by the
\* remote inspector has daysUntilExpiry = floor((notAfter - now) / 24h), -1
\* for a certificate that expired 12 hours ago, and isExpired = (notAfter < now).
C12_AsClaimed ==
    \A c \in BuiltCertificates :
        /\ c.DaysUntilExpiry = (c.Certificate.notAfter - call.now) \div HoursPerDay
        /\ c.IsExpired = (c.Certificate.notAfter < call.now)

\* C12, amended: daysUntilExpiry is (notAfter - now) / 24h rounded toward
\* zero: the number of whole days left, and for an expired certificate minus
\* the number of whole days since expiry (0 within the first day); isExpired
\* is (notAfter < now).
C12_RoundsTowardZero ==
    \A c \in BuiltCertificates :
        LET left == c.Certificate.notAfter - call.now
            d == c.DaysUntilExpiry
        IN  /\ left >= 0 => d >= 0 /\ d * HoursPerDay <= left /\ left < (d + 1) * HoursPerDay
            /\ left < 0 => d <= 0 /\ d * HoursPerDay >= left /\ left > (d - 1) * HoursPerDay
            /\ c.IsExpired = (left < 0)

C12_Witness ==
    /\ ret.op = "InspectURL" /\ call.now = 0
    /\ call.env.peers = <<CertExpired, CertCA>>
    /\ ret.out.leaf.IsExpired /\ ret.out.leaf.DaysUntilExpiry = 0
    /\ ~ret.out.chain[1].IsExpired /\ ret.out.chain[1].DaysUntilExpiry = 100

\* The target with the scheme https:// put before it when it names none.
ResolvedURL(target) == IF Contains(target, SchemeSep) THEN target ELSE HTTPS \o SchemeSep \o target

\* The host a target names: what follows "://" up to the first colon or slash.
TargetHostname(target) ==
    LET r == ResolvedURL(target)
        a == SliceFrom(r, IndexOf(r, "/") + 1)
        ends == {i \in 1..Len(a) : a[i] \in {":", "/"}}
    IN  IF ends = {} THEN a ELSE SubSeq(a, 1, (CHOOSE i \in ends : \A j \in ends : i <= j) - 1)

Dialed == ret.op = "InspectURL" /\ log # <<>>

C19_SuitesFollowPreference ==
    Dialed =>
        LET c == log[1].config
        IN  /\ call.sigAlg = SigECDSA =>
                /\ c.CipherSuites # <<>> /\ \A i \in 1..Len(c.CipherSuites) : c.CipherSuites[i].auth = "ECDSA"
                /\ c.MaxVersion = VersionTLS12
            /\ call.sigAlg = SigRSA =>
                /\ c.CipherSuites # <<>> /\ \A i \in 1..Len(c.CipherSuites) : c.CipherSuites[i].auth = "RSA"
                /\ c.MaxVersion = VersionTLS12
            /\ call.sigAlg = SigAuto =>
                c.CipherSuites = DefaultSuites /\ c.MaxVersion = DefaultMaxVersion

C19_Witness ==
    /\ Dialed /\ call.sigAlg = SigRSA
    /\ Len(log[1].config.CipherSuites) = 8 /\ log[1].config.MaxVersion = VersionTLS12
    /\ log[1].config.CipherSuites[7].kx = "RSA"

\* C20: a handshake that yields n >= 1 peer certificates gives the leaf, peer
\* certificate 0 with format DER and the resolved URL as its source, and a
\* chain of the n - 1 others in peer order, the one for peer i labeled
\* Chain[i], each with format DER; a dial or handshake that fails, or one that
\* yields no certificate, gives an error, no leaf and no chain.
C20_LeafAndChain ==
    Dialed =>
        LET peers == call.env.peers
        IN  IF call.env.dialOK /\ Len(peers) >= 1
            THEN /\ ret.out.err = ""
                 /\ ret.out.leaf.ok /\ ret.out.leaf.Certificate = peers[1]
                 /\ ret.out.leaf.Format = "DER" /\ ret.out.leaf.Source = ResolvedURL(call.targetURL)
                 /\ Len(ret.out.chain) = Len(peers) - 1
                 /\ \A i \in 1..(Len(peers) - 1) :
                        /\ ret.out.chain[i].Certificate = peers[i + 1]
                        /\ ret.out.chain[i].Format = "DER"
                        /\ ret.out.chain[i].Source = <<"C", "h", "a", "i", "n", "[">> \o Itoa(i) \o <<"]">>
            ELSE ret.out.err # "" /\ ~ret.out.leaf.ok /\ ret.out.chain = <<>>

C20_Witness ==
    /\ Dialed /\ call.targetURL = TargetHostPort
    /\ call.env.peers = <<CertExpired, CertCA, CertCA>>
    /\ ret.out.err = "" /\ ret.out.leaf.Certificate = CertExpired
    /\ ret.out.leaf.Source = HTTPS \o SchemeSep \o TargetHostPort
    /\ Len(ret.out.chain) = 2 /\ ret.out.chain[2].Source = <<"C", "h", "a", "i", "n", "[", "2", "]">>

\* -------------------------------------------- claims: TLS version prober

ProbeReturned == ret.op = "CheckTLSVersions"

\* C21: CheckTLSVersions returns, with a nil error, only after exactly four
\* handshake attempts, one per version in the order TLS 1.0, 1.1, 1.2, 1.3,
\* each to the same address with that version as both minimum and maximum;
\* its versions list has the four entries in that order, an attempt that
\* failed is listed as unsupported with the error's text, and while the loop
\* runs the attempts made are one per version tested so far.
C21_FourAttemptsInOrder ==
    /\ (call.op = "CheckTLSVersions" /\ ~ProbeReturned) =>
           /\ Len(log) = Len(call.Versions)
           /\ Len(log) <= 4
    /\ ProbeReturned =>
           /\ ret.out.err = NoError
           /\ Len(log) = 4
           /\ Len(ret.out.result.Versions) = 4
           /\ \A k \in 1..4 :
                  /\ log[k].addr = SprintfHostPort(call.host, call.port)
                  /\ log[k].config.MinVersion = ProbeVersions[k]
                  /\ log[k].config.MaxVersion = ProbeVersions[k]
                  /\ ret.out.result.Versions[k].Version = ProbeVersions[k]
                  /\ ret.out.result.Versions[k].Supported = (log[k].err = NoError)
                  /\ ret.out.result.Versions[k].Error = log[k].err
           /\ \A k \in 1..3 :
                  ret.out.result.Versions[k].Version < ret.out.result.Versions[k + 1].Version

\* The first attempt failed, a later one succeeded, and the call returned.
C21_Witness ==
    /\ ProbeReturned
    /\ ~ret.out.result.Versions[1].Supported
    /\ ret.out.result.Versions[1].Error = "connection refused"
    /\ ret.out.result.Versions[3].Supported
    /\ ~ret.out.result.Versions[4].Supported

SupportedVersions == {log[k].config.MaxVersion : k \in {j \in 1..Len(log) : log[j].err = NoError}}

\* C22: when CheckTLSVersions has returned, minSupported and maxSupported are
\* the lowest and the highest version whose handshake succeeded, and both
\* are zero exactly when no handshake succeeded.
C22_MinMaxOfSupported ==
    ProbeReturned =>
        /\ (SupportedVersions = {}) <=> (ret.out.result.MinSupported = 0)
        /\ (SupportedVersions = {}) <=> (ret.out.result.MaxSupported = 0)
        /\ SupportedVersions # {} =>
               /\ ret.out.result.MinSupported \in SupportedVersions
               /\ ret.out.result.MaxSupported \in SupportedVersions
               /\ \A v \in SupportedVersions :
                      ret.out.result.MinSupported <= v /\ v <= ret.out.result.MaxSupported

\* A server that supports only TLS 1.2 and 1.3.
C22_Witness ==
    /\ ProbeReturned
    /\ SupportedVersions = {VersionTLS12, VersionTLS13}
    /\ ret.out.result.MinSupported = VersionTLS12
    /\ ret.out.result.MaxSupported = VersionTLS13
    /\ ~ret.out.result.Versions[1].Supported
    /\ ~ret.out.result.Versions[2].Supported

\* ------------------------------------------------------ claims: conversion

ConvertSucceeded == ret.op = "Convert" /\ ret.out.err = ""

\* The format tag a format argument asks for.
RequestedTag == IF ToLower(call.format) = FormatArgPEM THEN FormatPEM ELSE FormatDER

\* The file at path parses, with the tag, to the certificate c.
ParsesAs(f, path, tag, c) ==
    LET p == parseCertificate(f[path].data)
    IN  f[path].exists /\ ~p.err /\ p.format = tag /\ p.cert.cert = c

\* The certificate Convert read.
ConvertedCertificate == parseCertificate(call.pre[call.inputPath].data).cert.cert

\* C23, as claimed: after a successful Convert of any parseable input to pem
\* or der, the output file parses with the requested format tag to the
\* certificate of the input, and converting the output back, to pem or to
\* der, gives a file that parses to that certificate again.
C23_AsClaimed ==
    ConvertSucceeded =>
        /\ ParsesAs(fs, call.outputPath, RequestedTag, ConvertedCertificate)
        /\ \A back \in {FormatArgPEM, FormatArgDER} :
               LET again == Convert(fs, call.outputPath, call.inputPath, back, [fault |-> "none"])
               IN  /\ again.err = ""
                   /\ ParsesAs(again.fs, call.inputPath,
                               IF back = FormatArgPEM THEN FormatPEM ELSE FormatDER,
                               ConvertedCertificate)

\* ------------------------------------------- claims: generated certificates

\* The generate command wrote a certificate and read it back.
GeneratedAndInspected ==
    ret.op = "generate" /\ ret.out.err = "" /\ ret.out.inspected.err = ""

\* An entry that is a host name: no colon, so no type tag, and ASCII only.
IsHostName(e) == e # <<>> /\ \A i \in 1..Len(e) : e[i] # ":" /\ e[i] \notin NonASCII

\* C24: a certificate written by Generate and parsed back by InspectFile has
\* the common name of the options as its subject, and as its DNS and IP SANs
\* the DNS and IP buckets of splitSANs on the options' SANs, in order, with
\* no email or URI SAN; every host name and every well-formed IP: entry of
\* the options' SANs is among them.
C24_GeneratedRoundTrip ==
    GeneratedAndInspected =>
        LET c == ret.out.inspected.val.Certificate
            s == splitSANs(call.sans)
        IN  /\ c.subject = call.cn
            /\ c.dns = s.dns
            /\ c.ips = s.ips
            /\ \A i \in 1..Len(call.sans) :
                   /\ IsHostName(call.sans[i]) => call.sans[i] \in Range(c.dns)
                   /\ WellFormedIP(call.sans[i]) =>
                          ParseIP(SliceFrom(call.sans[i], 3)).ip \in Range(c.ips)

\* A certificate generated with two host names, an IPv6 address and entries
\* of other kinds.
C24_Witness ==
    /\ GeneratedAndInspected
    /\ call.sans = <<SanWildcard, SanIPLower, SanIP6, SanEmailDotted, SanDNS>>
    /\ ret.out.inspected.val.Certificate.dns = <<SanWildcard, SanIPLower, SanDNS>>
    /\ Len(ret.out.inspected.val.Certificate.ips) = 1

\* --------------------------------------------------- claims: exit codes

\* C25, as claimed: a run of verify exits with 0 on success, with 2 when its
\* arguments are invalid, with 3 when Verify returned a result that is not
\* valid, and with 1 on any other error.
C25_AsClaimed ==
    ret.op = "verify" =>
        ret.exit = (CASE Len(call.args) # 1 -> 2
                      [] ret.out.result.ok /\ ~ret.out.result.IsValid -> 3
                      [] ret.out.err # "" -> 1
                      [] OTHER -> 0)

\* ------------------------------------------------ claims: validity flag

\* C26: whenever Verify returns a result, isValid is true if and only if the
\* errors list is empty.
C26_ValidIffNoErrors ==
    VerifyReturned => (ret.out.result.IsValid <=> ret.out.result.Errors = <<>>)

\* A result with three errors: expired, wrong host name, broken chain.
C26_Witness ==
    /\ VerifyReturned
    /\ ~ret.out.result.IsValid
    /\ Len(ret.out.result.Errors) = 3

\* ------------------------------------------------------ claims: ParseCSR

ParsedCSR == ret.op = "ParseCSR" /\ ret.out.err = ""

\* The request ParseCSR was given.
GivenCSR == PemDecode(call.data).Bytes

\* The flat list is the DNS names bare, then the IP addresses behind "IP:",
\* then the email addresses behind "email:", each kind in the request's order.
ListedByKind ==
    LET csr == GivenCSR
        flat == ret.out.info.SANs
    IN  /\ Len(flat) = Len(csr.dns) + Len(csr.ips) + Len(csr.emails)
        /\ \A i \in 1..Len(csr.dns) : flat[i] = csr.dns[i]
        /\ \A i \in 1..Len(csr.ips) :
               /\ HasPrefix(flat[Len(csr.dns) + i], TagIP)
               /\ ParseIP(SliceFrom(flat[Len(csr.dns) + i], 3)) = [ok |-> TRUE, ip |-> csr.ips[i]]
        /\ \A i \in 1..Len(csr.emails) :
               flat[Len(csr.dns) + Len(csr.ips) + i] = TagEmail \o csr.emails[i]

\* Classifying the flat list again gives the request's own SANs.
ClassifiesBack ==
    LET csr == GivenCSR
        s == splitSANs(ret.out.info.SANs)
    IN  s.dns = csr.dns /\ s.ips = csr.ips /\ s.emails = csr.emails

\* C27, as claimed: for every request, the flat SAN list of ParseCSR lists
\* the DNS names bare, then the IP addresses, then the email addresses, and
\* splitSANs on that list yields exactly the request's DNS, IP and email SANs.
C27_AsClaimed == ParsedCSR => ListedByKind /\ ClassifiesBack

\* C27, amended: the listing is as claimed for every request, and splitSANs
\* on the list yields the request's DNS, IP and email SANs when none of the
\* request's DNS names begins with a type tag (IP:, or email: or uri: in any
\* letter case).
C27_Amended ==
    ParsedCSR =>
        /\ ListedByKind
        /\ (\A i \in 1..Len(GivenCSR.dns) : Untagged(GivenCSR.dns[i])) => ClassifiesBack

\* A request with DNS names, one of them spelled "ip:10.0.0.1", an IPv6
\* address and an email address.
C27_Witness ==
    /\ ParsedCSR
    /\ GivenCSR.dns = <<SanDNS, SanIPLower>>
    /\ GivenCSR.ips = << <<0, 0, 0, 0, 0, 0, 0, 1>> >>
    /\ GivenCSR.emails = << <<":", "a", "@", "b">> >>
    /\ ret.out.info.SANs = <<SanDNS, SanIPLower, SanIP6, TagEmail \o <<":", "a", "@", "b">> >>
    /\ ClassifiesBack

\* ---------------------------------------------------- claims: dial address

\* The port a target carries: the text between the first colon after its
\* host and the next slash, empty when there is none.
EmbeddedPort(target) ==
    LET r == ResolvedURL(target)
        a == SliceFrom(r, IndexOf(r, "/") + 1)
        slash == IndexOf(a, "/")
        auth == IF slash = 0 THEN a ELSE SubSeq(a, 1, slash - 1)
    IN  IF IndexOf(auth, ":") = 0 THEN <<>> ELSE SliceFrom(auth, IndexOf(auth, ":"))

\* The address the claim gives for a call of the remote inspector.
ExpectedDial(target, port, connectHost) ==
    IF connectHost # <<>> THEN connectHost \o <<":">> \o Itoa(port)
    ELSE TargetHostname(target) \o <<":">>
         \o (IF EmbeddedPort(target) # <<>> THEN EmbeddedPort(target) ELSE Itoa(port))

\* The value of --connect ends in a port: digits after its last colon, behind
\* a host name, an IPv4 address or a bracketed IPv6 address.
ConnectPortGiven(c) ==
    LET k == LastIndexOf(c, ":")
    IN  /\ k > 1 /\ k < Len(c)
        /\ \A i \in (k + 1)..Len(c) : IsDigit(c[i])
        /\ \/ \A i \in 1..(k - 1) : c[i] # ":"
           \/ c[1] = "[" /\ c[k - 1] = "]"

\* C28, as claimed: a call of the remote inspector dials connectHost:port
\* with the port argument when a connect host is given, and else the target's
\* host with the target's own port or, when it has none, the port argument;
\* a run of the inspect command whose --connect value ends in a port dials
\* that host and that port, whatever --port and the target say.
C28_AsClaimed ==
    /\ Dialed => log[1].addr = ExpectedDial(call.targetURL, call.port, call.connectHost)
    /\ (ret.op = "inspect" /\ log # <<>> /\ ConnectPortGiven(call.connect)) =>
           log[1].addr = call.connect

\* ------------------------------------------- claims: override all dropped

\* The override list is not empty and splitSANs drops every entry of it.
OverrideAllDropped ==
    /\ Len(call.options.SANs) > 0
    /\ \A i \in 1..Len(call.options.SANs) : MalformedIPOrURI(call.options.SANs[i])

\* C29: when every entry of a non-empty override list is dropped as
\* malformed, SignCSR fails or succeeds exactly as it does on the same files
\* with no override, and on success the leaf carries no SAN of any kind: the
\* request's own SANs are not restored.
C29_EmptiedOverrideStillOverrides ==
    ret.op = "SignCSR" /\ OverrideAllDropped =>
        /\ ret.err = SignCSR(call.pre, [call.options EXCEPT !.SANs = <<>>], call.certPath,
                             call.now, call.env).err
        /\ ret.err = "" =>
               /\ SignSucceeded
               /\ IssuedLeaf.dns = <<>> /\ IssuedLeaf.ips = <<>>
               /\ IssuedLeaf.emails = <<>> /\ IssuedLeaf.uris = <<>>

\* A request with SANs of three kinds signed with the override IP:x.
C29_Witness ==
    /\ ret.op = "SignCSR" /\ ret.err = ""
    /\ call.options.SANs = <<SanIPBad>>
    /\ SignedCSR = CsrWithSANs
    /\ IssuedLeaf.kind = "cert"
    /\ IssuedLeaf.subject = CsrWithSANs.subject
    /\ IssuedLeaf.dns = <<>> /\ IssuedLeaf.ips = <<>> /\ IssuedLeaf.emails = <<>>

\* --------------------------------------------- claims: the request's key

\* The mode the key file of the last run was created under: the mode of the
\* file that was there, else the mode the process creates files with.
CreationMode ==
    IF call.pre[ret.out.keyPath].exists THEN call.pre[ret.out.keyPath].mode
    ELSE call.env.createMode

====
